---- MODULE Spec2Model ----
(***************************************************************************)
(* cppdf: C++ source to themed PDF.  Model of cli.py: the tokenizer and    *)
(* classifier of draw_code_tokens, the per-line comment state machine of   *)
(* draw_highlighted_line, the draw loop of SyntaxHighlightedCode, the      *)
(* file/chunk loop of create_pdf and the option loop of main; and of       *)
(* gui.py: run_cppdf on the GUI thread with create_pdf on PdfWorker        *)
(* threads.                                                                *)
(*                                                                         *)
(* A Python str is a sequence of one-character strings, over the           *)
(* characters up to U+00FF; None (no token)                                *)
(* is the empty sequence, which no token equals.  Horizontal positions are *)
(* counted in glyphs: every font used is a Courier face of one size, so    *)
(* canvas.stringWidth(s, ...) is proportional to len(s).                   *)
(***************************************************************************)
EXTENDS Integers, Sequences, FiniteSets, TLC

\* ------------------------------------------------------------------------
\* Character classes of token_pattern and of the classifier's regexes
\* ------------------------------------------------------------------------
Digits == {"0","1","2","3","4","5","6","7","8","9"}

HexDigits == Digits \cup {"a","b","c","d","e","f","A","B","C","D","E","F"}

Letters ==
  { "a","b","c","d","e","f","g","h","i","j","k","l","m",
    "n","o","p","q","r","s","t","u","v","w","x","y","z",
    "A","B","C","D","E","F","G","H","I","J","K","L","M",
    "N","O","P","Q","R","S","T","U","V","W","X","Y","Z" }

IdentStart == Letters \cup {"_"}

\* the characters above "\x7f" that \w matches, up to "\xff"
Latin1Word ==
  { "ª","²","³","µ","¹","º","¼","½","¾","À","Á","Â","Ã","Ä","Å","Æ",
    "Ç","È","É","Ê","Ë","Ì","Í","Î","Ï","Ð","Ñ","Ò","Ó","Ô","Õ","Ö",
    "Ø","Ù","Ú","Û","Ü","Ý","Þ","ß","à","á","â","ã","ä","å","æ","ç",
    "è","é","ê","ë","ì","í","î","ï","ð","ñ","ò","ó","ô","õ","ö","ø",
    "ù","ú","û","ü","ý","þ","ÿ" }

\* \w on a str pattern: ASCII letters, digits and "_", and the non-ASCII
\* letters and digits (here those up to "\xff", the last character a line
\* of the model can hold)
WordChars == IdentStart \cup Digits \cup Latin1Word

SuffixChars == {"f","F","l","L","u","U"}

\* \s on a str pattern, str.isspace and str.strip: the characters up to
\* "\xff" that are whitespace, i.e. "\t" "\n" "\x0b" "\f" "\r" "\x1c".."\x1f"
\* " " "\x85" "\xa0"
Whitespace ==
  {" ", "\t", "\r", "\f", "\n", "", "", "", "", "", "", " "}

MultiOps ==
  { <<":",":">>, <<"-",">">>, <<"+","+">>, <<"-","-">>, <<"<","<">>, <<">",">">>,
    <<"<","=">>, <<">","=">>, <<"=","=">>, <<"!","=">>, <<"&","&">>, <<"|","|">> }

SingleOps == {"+","-","*","/","%","=","<",">","!","&","|","^","~","?",":"}

\* the bracket/separator alternatives with \. left out of the pattern
Brackets_NoDot == {"(",")","[","]","{","}",";",",","#"}

Brackets == {"(",")","[","]","{","}",";",",",".","#"}

None == << >>

\* ------------------------------------------------------------------------
\* Python str helpers
\* ------------------------------------------------------------------------
\* s.find(sub, start) with 0-based indices; -1 when absent
RECURSIVE find(_, _, _)
find(s, sub, start) ==
  IF start + Len(sub) > Len(s) THEN -1
  ELSE IF SubSeq(s, start + 1, start + Len(sub)) = sub THEN start
  ELSE find(s, sub, start + 1)

\* sub in s
contains(s, sub) == find(s, sub, 0) # -1

\* s[a:] and s[:b] with 0-based slice bounds
SliceFrom(s, a) == SubSeq(s, a + 1, Len(s))

SliceTo(s, b) == SubSeq(s, 1, b)

\* s.strip()
RECURSIVE lstrip(_)
lstrip(s) == IF s # << >> /\ Head(s) \in Whitespace THEN lstrip(Tail(s)) ELSE s

RECURSIVE rstrip(_)
rstrip(s) ==
  IF s # << >> /\ s[Len(s)] \in Whitespace THEN rstrip(SubSeq(s, 1, Len(s) - 1)) ELSE s

strip(s) == rstrip(lstrip(s))

\* s.isspace()
isspace(s) == s # << >> /\ \A k \in 1..Len(s) : s[k] \in Whitespace

\* canvas.stringWidth(s, <Courier face>, font_size), in glyphs
stringWidth(s) == Len(s)

\* concatenation of a sequence of strings
RECURSIVE Concat(_)
Concat(ss) == IF ss = << >> THEN << >> ELSE Head(ss) \o Concat(Tail(ss))

\* ------------------------------------------------------------------------
\* Tokenizer: re.findall(token_pattern, line)
\* ------------------------------------------------------------------------
\* first position >= p whose character is not in class C (a greedy C*)
RECURSIVE ScanClass(_, _, _)
ScanClass(s, p, C) ==
  IF p <= Len(s) /\ s[p] \in C THEN ScanClass(s, p + 1, C) ELSE p

\* q[^q\\]*(?:\\.[^q\\]*)*q from the character after the opening quote q:
\* the position after the closing quote, 0 when the literal is unterminated
RECURSIVE ScanQuoted(_, _, _)
ScanQuoted(s, p, q) ==
  IF p > Len(s) THEN 0
  ELSE IF s[p] = q THEN p + 1
  ELSE IF s[p] = "\\"
       THEN IF p + 1 <= Len(s) /\ s[p + 1] # "\n" THEN ScanQuoted(s, p + 2, q) ELSE 0
  ELSE ScanQuoted(s, p + 1, q)

\* [0-9]+\.?[0-9]*[fFlLuU]* from a digit at p: the position after the match
ScanDecimal(s, p) ==
  LET a == ScanClass(s, p, Digits)
      b == IF a <= Len(s) /\ s[a] = "." THEN a + 1 ELSE a
      c == ScanClass(s, b, Digits)
  IN  ScanClass(s, c, SuffixChars)

\* token_pattern tried at position p (1-based), alternatives in order: the
\* position after the first alternative that matches, 0 when none does
MatchAt(s, p) ==
  LET c == s[p] IN
  IF c = "\"" /\ ScanQuoted(s, p + 1, "\"") # 0 THEN ScanQuoted(s, p + 1, "\"")
  ELSE IF c = "'" /\ ScanQuoted(s, p + 1, "'") # 0 THEN ScanQuoted(s, p + 1, "'")
  ELSE IF c = "0" /\ p + 2 <= Len(s) /\ s[p + 1] = "x" /\ s[p + 2] \in HexDigits
       THEN ScanClass(s, p + 2, HexDigits)
  ELSE IF c \in Digits THEN ScanDecimal(s, p)
  ELSE IF c \in IdentStart THEN ScanClass(s, p + 1, WordChars)
  ELSE IF p + 1 <= Len(s) /\ <<c, s[p + 1]>> \in MultiOps THEN p + 2
  ELSE IF c \in SingleOps \cup Brackets THEN p + 1
  ELSE IF c \in Whitespace THEN ScanClass(s, p, Whitespace)
  ELSE 0

\* re.findall from position p: a character no alternative matches is skipped
RECURSIVE findall(_, _)
findall(s, p) ==
  IF p > Len(s) THEN << >>
  ELSE LET e == MatchAt(s, p) IN
       IF e = 0 THEN findall(s, p + 1)
       ELSE <<SubSeq(s, p, e - 1)>> \o findall(s, e)

\* tokens = re.findall(token_pattern, line)
Tokenize(line) == findall(line, 1)

\* ------------------------------------------------------------------------
\* Classifier: the if/elif chain of draw_code_tokens
\* ------------------------------------------------------------------------
keywords ==
  { <<"i","f">>, <<"e","l","s","e">>, <<"w","h","i","l","e">>, <<"f","o","r">>, 
    <<"d","o">>, <<"s","w","i","t","c","h">>, <<"c","a","s","e">>, 
    <<"d","e","f","a","u","l","t">>, <<"b","r","e","a","k">>, 
    <<"c","o","n","t","i","n","u","e">>, <<"r","e","t","u","r","n">>, 
    <<"g","o","t","o">>, <<"c","o","n","s","t">>, <<"s","t","a","t","i","c">>, 
    <<"e","x","t","e","r","n">>, <<"a","u","t","o">>, 
    <<"r","e","g","i","s","t","e","r">>, <<"v","o","l","a","t","i","l","e">>, 
    <<"m","u","t","a","b","l","e">>, <<"i","n","l","i","n","e">>, 
    <<"v","i","r","t","u","a","l">>, <<"e","x","p","l","i","c","i","t">>, 
    <<"f","r","i","e","n","d">>, <<"t","y","p","e","d","e","f">>, 
    <<"p","u","b","l","i","c">>, <<"p","r","i","v","a","t","e">>, 
    <<"p","r","o","t","e","c","t","e","d">>, <<"c","l","a","s","s">>, 
    <<"s","t","r","u","c","t">>, <<"u","n","i","o","n">>, <<"e","n","u","m">>, 
    <<"n","a","m","e","s","p","a","c","e">>, <<"u","s","i","n","g">>, 
    <<"t","e","m","p","l","a","t","e">>, <<"t","y","p","e","n","a","m","e">>, 
    <<"t","r","y">>, <<"c","a","t","c","h">>, <<"t","h","r","o","w">>, <<"n","e","w">>, 
    <<"d","e","l","e","t","e">>, <<"t","h","i","s">>, 
    <<"c","o","n","s","t","_","c","a","s","t">>, 
    <<"d","y","n","a","m","i","c","_","c","a","s","t">>, 
    <<"r","e","i","n","t","e","r","p","r","e","t","_","c","a","s","t">>, 
    <<"s","t","a","t","i","c","_","c","a","s","t">>, <<"t","r","u","e">>, 
    <<"f","a","l","s","e">>, <<"n","u","l","l","p","t","r">> }

types ==
  { <<"i","n","t">>, <<"f","l","o","a","t">>, <<"d","o","u","b","l","e">>, 
    <<"c","h","a","r">>, <<"b","o","o","l">>, <<"v","o","i","d">>, <<"l","o","n","g">>, 
    <<"s","h","o","r","t">>, <<"u","n","s","i","g","n","e","d">>, 
    <<"s","i","g","n","e","d">>, <<"w","c","h","a","r","_","t">>, 
    <<"c","h","a","r","1","6","_","t">>, <<"c","h","a","r","3","2","_","t">>, 
    <<"s","i","z","e","_","t">>, <<"p","t","r","d","i","f","f","_","t">>, 
    <<"n","u","l","l","p","t","r","_","t">>, <<"i","n","t","8","_","t">>, 
    <<"i","n","t","1","6","_","t">>, <<"i","n","t","3","2","_","t">>, 
    <<"i","n","t","6","4","_","t">>, <<"u","i","n","t","8","_","t">>, 
    <<"u","i","n","t","1","6","_","t">>, <<"u","i","n","t","3","2","_","t">>, 
    <<"u","i","n","t","6","4","_","t">>, <<"s","t","r","i","n","g">>, 
    <<"v","e","c","t","o","r">>, <<"m","a","p">>, <<"s","e","t">>, <<"l","i","s","t">>, 
    <<"d","e","q","u","e">>, <<"a","r","r","a","y">>, <<"p","a","i","r">>, 
    <<"t","u","p","l","e">>, <<"u","n","i","q","u","e","_","p","t","r">>, 
    <<"s","h","a","r","e","d","_","p","t","r">>, <<"w","e","a","k","_","p","t","r">> }

\* re.match(r"^[A-Za-z_]\w*$", token)
IsIdent(token) ==
  /\ token # << >>
  /\ token[1] \in IdentStart
  /\ \A k \in 2..Len(token) : token[k] \in WordChars

\* re.match(r"^(0x[0-9a-fA-F]+|\d+\.?\d*[fFlLuU]*)$", token)
IsNumber(token) ==
  /\ token # << >>
  /\ \/ /\ Len(token) >= 3
        /\ token[1] = "0"
        /\ token[2] = "x"
        /\ \A k \in 3..Len(token) : token[k] \in HexDigits
     \/ /\ token[1] \in Digits
        /\ ScanDecimal(token, 1) = Len(token) + 1

IsString(token) ==
  /\ token # << >>
  /\ \/ token[1] = "\"" /\ token[Len(token)] = "\""
     \/ token[1] = "'" /\ token[Len(token)] = "'"

\* the pointer/reference list without "&"
PointerTokens_NoAmpersand == { <<"*">>, <<"-",">">>, <<":",":">> }

PointerTokens == { <<"*">>, <<"&">>, <<"-",">">>, <<":",":">> }

OperatorTokens ==
  { <<"+">>, <<"-">>, <<"/">>, <<"%">>, <<"=">>, <<"<">>, <<">">>, <<"!">>,
    <<"|">>, <<"^">>, <<"~">>, <<"?">>, <<"+","+">>, <<"-","-">>, <<"<","<">>,
    <<">",">">>, <<"<","=">>, <<">","=">>, <<"=","=">>, <<"!","=">>,
    <<"&","&">>, <<"|","|">> }

PunctuationTokens ==
  { <<"(">>, <<")">>, <<"[">>, <<"]">>, <<"{">>, <<"}">>, <<";">>, <<",">>, <<"#">> }

\* the chain with the member-access test moved above the function-call test
Classify_MemberFirst(token, prev_token, next_token) ==
  IF IsString(token) THEN "String"
  ELSE IF token \in keywords THEN "Keyword"
  ELSE IF token \in types THEN "Type"
  ELSE IF prev_token \in { <<".">>, <<"-",">">> } /\ IsIdent(token) THEN "MemberAccess"
  ELSE IF IsIdent(token) /\ next_token # None /\ strip(next_token) = <<"(">>
       THEN "FunctionCall"
  ELSE IF prev_token = <<":",":">> /\ IsIdent(token) THEN "NamespaceAccess"
  ELSE IF token \in PointerTokens THEN "PointerOrRef"
  ELSE IF token \in OperatorTokens THEN "Operator"
  ELSE IF IsNumber(token) THEN "Number"
  ELSE IF token \in PunctuationTokens THEN "Punctuation"
  ELSE IF isspace(token) THEN "Whitespace"
  ELSE "Identifier"

\* the branch of the chain taken by token, named by the category it paints
Classify(token, prev_token, next_token) ==
  IF IsString(token) THEN "String"
  ELSE IF token \in keywords THEN "Keyword"
  ELSE IF token \in types THEN "Type"
  ELSE IF IsIdent(token) /\ next_token # None /\ strip(next_token) = <<"(">>
       THEN "FunctionCall"
  ELSE IF prev_token \in { <<".">>, <<"-",">">> } /\ IsIdent(token) THEN "MemberAccess"
  ELSE IF prev_token = <<":",":">> /\ IsIdent(token) THEN "NamespaceAccess"
  ELSE IF token \in PointerTokens THEN "PointerOrRef"
  ELSE IF token \in OperatorTokens THEN "Operator"
  ELSE IF IsNumber(token) THEN "Number"
  ELSE IF token \in PunctuationTokens THEN "Punctuation"
  ELSE IF isspace(token) THEN "Whitespace"
  ELSE "Identifier"

\* theme key and font each branch selects before canvas.drawString
ThemeKey(cat) ==
  CASE cat = "String" -> "string"
    [] cat = "Keyword" -> "keyword"
    [] cat \in {"Type", "NamespaceAccess"} -> "type"
    [] cat = "FunctionCall" -> "function"
    [] cat = "MemberAccess" -> "property"
    [] cat \in {"PointerOrRef", "Operator"} -> "operator"
    [] cat = "Number" -> "number"
    [] cat = "Punctuation" -> "punctuation"
    [] cat = "Identifier" -> "variable"
    [] cat \in {"BlockComment", "LineComment"} -> "comment"
    [] cat = "Preprocessor" -> "preproc"

Font(cat) ==
  CASE cat \in {"Keyword", "PointerOrRef", "Preprocessor"} -> "Courier-Bold"
    [] cat \in {"BlockComment", "LineComment"} -> "Courier-Oblique"
    [] OTHER -> "Courier"

\* prev_token = token.strip() in the whitespace branch too
PrevToken_Stripped(token, cat) == strip(token)

\* prev_token after the iteration: the whitespace branch stores the token,
\* every other branch stores token.strip()
PrevToken(token, cat) == IF cat = "Whitespace" THEN token ELSE strip(token)

\* the for loop of draw_code_tokens from tokens[i] on
RECURSIVE TokenLoop(_, _, _, _)
TokenLoop(tokens, i, current_x, prev_token) ==
  IF i > Len(tokens) THEN [spans |-> << >>, x |-> current_x]
  ELSE LET token == tokens[i]
           next_token == IF i + 1 <= Len(tokens) THEN tokens[i + 1] ELSE None
           cat == Classify(token, prev_token, next_token)
           rest == TokenLoop(tokens, i + 1, current_x + stringWidth(token),
                             PrevToken(token, cat))
       IN  [spans |-> <<[text |-> token, cat |-> cat, x |-> current_x,
                         prev |-> prev_token]>> \o rest.spans,
            x |-> rest.x]

\* draw_code_tokens(canvas, line, x, y, keywords, types): the tokens in
\* order, each with the branch it took, its x and the value of prev_token
\* when it was classified, and the returned current_x.  A Whitespace span
\* advances x without a drawString.
draw_code_tokens(line, x) == TokenLoop(Tokenize(line), 1, x, None)

\* ------------------------------------------------------------------------
\* LineHighlighter: draw_highlighted_line
\* ------------------------------------------------------------------------
\* re.match(r"^#", line): leading whitespace not skipped
IsPreprocessor_NoIndent(line) == line # << >> /\ line[1] = "#"

\* re.match(r"^\s*#", line)
IsPreprocessor(line) ==
  LET p == ScanClass(line, 1, Whitespace) IN p <= Len(line) /\ line[p] = "#"

\* if before: x = self.draw_code_tokens(canvas, before, x, y, keywords, types)
DrawBefore(before, x) ==
  IF before # << >> THEN draw_code_tokens(before, x) ELSE [spans |-> << >>, x |-> x]

Span(text, cat, x) == [text |-> text, cat |-> cat, x |-> x]

\* the continuation branch returning False
ContinueComment_ReturnsFalse(line, x) ==
  [spans |-> <<[text |-> line, cat |-> "BlockComment", x |-> x]>>, ret |-> FALSE]

\* in_block_comment and no "*/": the whole line is drawn as comment
ContinueComment(line, x) ==
  [spans |-> <<Span(line, "BlockComment", x)>>, ret |-> TRUE]

\* "/*" at block_comment_start with "*/" at block_comment_end
ClosedComment(line, x, block_comment_start, block_comment_end) ==
  LET b == DrawBefore(SliceTo(line, block_comment_start), x)
      comment == SubSeq(line, block_comment_start + 1, block_comment_end + 2)
      after == SliceFrom(line, block_comment_end + 2)
      a == IF after # << >>
           THEN draw_code_tokens(after, b.x + stringWidth(comment)).spans
           ELSE << >>
  IN  [spans |-> b.spans \o <<Span(comment, "BlockComment", b.x)>> \o a,
       ret |-> FALSE]

\* "/*" at block_comment_start with no "*/" after it
OpenComment(line, x, block_comment_start) ==
  LET b == DrawBefore(SliceTo(line, block_comment_start), x) IN
  [spans |-> b.spans \o
               <<Span(SliceFrom(line, block_comment_start), "BlockComment", b.x)>>,
   ret |-> TRUE]

\* preprocessor directive: the whole line in one drawString
PreprocessorLine(line, x) ==
  [spans |-> <<Span(line, "Preprocessor", x)>>, ret |-> FALSE]

\* s.rfind(sub) with a 0-based result; -1 when absent
rfind(s, sub) ==
  LET ps == { p \in 0..(Len(s) - Len(sub)) : SubSeq(s, p + 1, p + Len(sub)) = sub } IN
  IF ps = {} THEN -1 ELSE CHOOSE p \in ps : \A q \in ps : q <= p

\* single-line comment from the last "//" (line.rfind)
LineCommentLine_LastSlashes(line, x) ==
  LET comment_start == rfind(line, <<"/","/">>)
      b == DrawBefore(SubSeq(line, 1, comment_start), x)
  IN  [spans |-> b.spans \o
                   <<[text |-> SubSeq(line, comment_start + 1, Len(line)),
                      cat |-> "LineComment", x |-> b.x]>>,
       ret |-> FALSE]

\* single-line comment from the first "//"
LineCommentLine(line, x) ==
  LET comment_start == find(line, <<"/","/">>, 0)
      b == DrawBefore(SliceTo(line, comment_start), x)
  IN  [spans |-> b.spans \o
                   <<Span(SliceFrom(line, comment_start), "LineComment", b.x)>>,
       ret |-> FALSE]

\* draw_highlighted_line(canvas, line, x, y, in_block_comment): the spans
\* drawn for the line, in drawing order, and the returned flag.  The value
\* returned by the recursive call on rest_of_line is discarded, as in the
\* source.
RECURSIVE draw_highlighted_line(_, _, _)
draw_highlighted_line(line, x, in_block_comment) ==
  IF in_block_comment
  THEN LET end_pos == find(line, <<"*","/">>, 0) IN
       IF end_pos # -1
       THEN LET comment_part == SliceTo(line, end_pos + 2)
                rest_of_line == SliceFrom(line, end_pos + 2)
                new_x == x + stringWidth(comment_part)
                rest == IF rest_of_line # << >>
                        THEN draw_highlighted_line(rest_of_line, new_x, FALSE).spans
                        ELSE << >>
            IN  [spans |-> <<Span(comment_part, "BlockComment", x)>> \o rest,
                 ret |-> FALSE]
       ELSE ContinueComment(line, x)
  ELSE
  LET block_comment_start == find(line, <<"/","*">>, 0) IN
  IF block_comment_start # -1
  THEN LET block_comment_end == find(line, <<"*","/">>, block_comment_start + 2) IN
       IF block_comment_end # -1
       THEN ClosedComment(line, x, block_comment_start, block_comment_end)
       ELSE OpenComment(line, x, block_comment_start)
  ELSE IF IsPreprocessor(line) THEN PreprocessorLine(line, x)
  ELSE IF contains(line, <<"/","/">>) THEN LineCommentLine(line, x)
  ELSE [spans |-> draw_code_tokens(line, x).spans, ret |-> FALSE]

\* ------------------------------------------------------------------------
\* SyntaxHighlightedCode
\* ------------------------------------------------------------------------
\* text.split("\n"), cutting at a middle line break first so that the
\* recursion is as deep as the logarithm of the number of lines
RECURSIVE split(_)
split(text) ==
  LET P == { k \in 1..Len(text) : text[k] = "\n" } IN
  IF P = {} THEN <<text>>
  ELSE LET m == CHOOSE k \in P :
                  Cardinality({ j \in P : j < k }) = Cardinality(P) \div 2
       IN  split(SubSeq(text, 1, m - 1)) \o split(SubSeq(text, m + 1, Len(text)))

\* "\n".join(lines), halving the list
RECURSIVE join(_)
join(lines) ==
  IF lines = << >> THEN << >>
  ELSE IF Len(lines) = 1 THEN lines[1]
  ELSE LET h == Len(lines) \div 2 IN
       join(SubSeq(lines, 1, h)) \o <<"\n">> \o join(SubSeq(lines, h + 1, Len(lines)))

\* SyntaxHighlightedCode.__init__
SyntaxHighlightedCode(code, start_line, is_first_chunk, is_last_chunk, in_block_comment) ==
  [ kind |-> "Code",
    code |-> code,
    start_line |-> start_line,
    is_first_chunk |-> is_first_chunk,
    is_last_chunk |-> is_last_chunk,
    lines |-> split(code),
    in_block_comment |-> in_block_comment ]

\* the for loop of draw over self.lines[lo..hi], entered with in_comment:
\* one entry per line drawn, and in_comment after the last of them.  The
\* range is halved so that the evaluation stays shallow; the flag is still
\* threaded from each line to the next.
RECURSIVE DrawLoop(_, _, _, _, _)
DrawLoop(lines, lo, hi, start_line, in_comment) ==
  IF lo > hi THEN [out |-> << >>, in_comment |-> in_comment]
  ELSE IF lo = hi
  THEN LET r == draw_highlighted_line(lines[lo], 0, in_comment) IN
       [out |-> <<[line_num |-> start_line + lo - 1, spans |-> r.spans]>>,
        in_comment |-> r.ret]
  ELSE LET mid == (lo + hi) \div 2
           l == DrawLoop(lines, lo, mid, start_line, in_comment)
           r == DrawLoop(lines, mid + 1, hi, start_line, l.in_comment)
       IN  [out |-> l.out \o r.out, in_comment |-> r.in_comment]

\* SyntaxHighlightedCode.draw: x is counted from x_offset
draw(self) ==
  DrawLoop(self.lines, 1, Len(self.lines), self.start_line, self.in_block_comment).out

\* ------------------------------------------------------------------------
\* create_pdf
\* ------------------------------------------------------------------------
max_lines_per_chunk == 55

Paragraph(style, what, arg) ==
  [kind |-> "Paragraph", style |-> style, what |-> what, arg |-> arg]

Spacer == [kind |-> "Spacer"]

PageBreak == [kind |-> "PageBreak"]

Min(a, b) == IF a <= b THEN a ELSE b

\* the scan without its first branch: a line with "/*" never sets the flag
ScanLine_NeverSets(line, in_block_comment) ==
  IF contains(line, <<"*","/">>) THEN FALSE ELSE in_block_comment

\* the scan after a chunk is appended: one line's effect on in_block_comment
ScanLine(line, in_block_comment) ==
  IF contains(line, <<"/","*">>) /\ ~contains(line, <<"*","/">>) THEN TRUE
  ELSE IF contains(line, <<"*","/">>) THEN FALSE
  ELSE in_block_comment

\* for line in lines[chunk_start:chunk_end], over chunk[lo..hi] in order.  The
\* range is halved and the flag is evaluated before it is passed on, so that
\* the evaluation stays shallow.
RECURSIVE ScanLines(_, _, _, _)
ScanLines(chunk, lo, hi, in_block_comment) ==
  IF lo > hi THEN in_block_comment
  ELSE IF lo = hi THEN ScanLine(chunk[lo], in_block_comment)
  ELSE LET mid == (lo + hi) \div 2 IN
       IF ScanLines(chunk, lo, mid, in_block_comment)
       THEN ScanLines(chunk, mid + 1, hi, TRUE)
       ELSE ScanLines(chunk, mid + 1, hi, FALSE)

\* the flowable with start_line=chunk_start (0-based) instead of chunk_start + 1
ChunkFlowable_ZeroBasedStart(lines, chunk_idx, num_chunks, in_block_comment) ==
  LET chunk_start == chunk_idx * max_lines_per_chunk
      chunk_end == Min(chunk_start + max_lines_per_chunk, Len(lines))
  IN  SyntaxHighlightedCode(join(SubSeq(lines, chunk_start + 1, chunk_end)),
                            chunk_start, chunk_idx = 0, chunk_idx = num_chunks - 1,
                            in_block_comment)

\* one iteration of for chunk_idx in range(num_chunks): the flowable appended
ChunkFlowable(lines, chunk_idx, num_chunks, in_block_comment) ==
  LET chunk_start == chunk_idx * max_lines_per_chunk
      chunk_end == Min(chunk_start + max_lines_per_chunk, Len(lines))
      chunk_code == join(SubSeq(lines, chunk_start + 1, chunk_end))
      is_first == chunk_idx = 0
      is_last == chunk_idx = num_chunks - 1
  IN  SyntaxHighlightedCode(chunk_code, chunk_start + 1, is_first, is_last,
                            in_block_comment)

\* in_block_comment after the scan that follows chunk chunk_idx
AfterChunk(lines, chunk_idx, in_block_comment) ==
  LET chunk_start == chunk_idx * max_lines_per_chunk
      chunk_end == Min(chunk_start + max_lines_per_chunk, Len(lines))
  IN  ScanLines(lines, chunk_start + 1, chunk_end, in_block_comment)

\* the chunk loop from chunk_idx on: the flowables appended, in order
RECURSIVE ChunkLoop(_, _, _, _)
ChunkLoop(lines, chunk_idx, num_chunks, in_block_comment) ==
  IF chunk_idx >= num_chunks THEN << >>
  ELSE <<ChunkFlowable(lines, chunk_idx, num_chunks, in_block_comment)>>
         \o (IF AfterChunk(lines, chunk_idx, in_block_comment)
             THEN ChunkLoop(lines, chunk_idx + 1, num_chunks, TRUE)
             ELSE ChunkLoop(lines, chunk_idx + 1, num_chunks, FALSE))

\* the code flowables of one file that was read
CodeFlowables(code_content) ==
  LET lines == split(code_content)
      num_chunks == (Len(lines) + max_lines_per_chunk - 1) \div max_lines_per_chunk
  IN  IF Len(lines) > max_lines_per_chunk
      THEN ChunkLoop(lines, 0, num_chunks, FALSE)
      ELSE <<SyntaxHighlightedCode(code_content, 1, TRUE, TRUE, FALSE)>>

\* for f in files_to_include: the bullet paragraphs, from file k on
RECURSIVE Bullets(_, _)
Bullets(n, k) ==
  IF k > n THEN << >> ELSE <<Paragraph("InfoStyle", "Bullet", k)>> \o Bullets(n, k + 1)

\* the elements appended before the file loop
Prelude(a, files) ==
  (IF a.assignment_title # << >>
   THEN <<Paragraph("CustomHeader", "Title", 0), Spacer>> ELSE << >>)
  \o (IF a.student_name # << >> THEN <<Paragraph("InfoStyle", "Student", 0)>> ELSE << >>)
  \o (IF a.course # << >> THEN <<Paragraph("InfoStyle", "Course", 0)>> ELSE << >>)
  \o <<Paragraph("InfoStyle", "Date", 0),
       Paragraph("InfoStyle", "Files Included", Len(files)), Spacer,
       Paragraph("InfoStyle", "Project Files", 0)>>
  \o Bullets(Len(files), 1)
  \o <<Spacer>>

\* ------------------------------------------------------------------------
\* State
\* ------------------------------------------------------------------------
VARIABLES
  sys_argv,          \* main: sys.argv (<< >> when create_pdf is called directly)
  args,              \* create_pdf: the arguments it is called with
  files_to_include,  \* create_pdf: the files, each readable or not, with its text
  pc,                \* "main", "exit"; create_pdf: "start", "files", "build", "done" ("off")
  i,                 \* create_pdf: files handled by the file loop so far
  elements,          \* create_pdf: the flowables handed to doc.build
  warnings,          \* create_pdf: indices of the files reported unreadable
  build_pos,         \* doc.build: elements laid out so far
  drawn,             \* doc.build: what each code flowable drew, in drawing order
  pdf_theme,         \* create_pdf: the key of THEMES its local theme is bound to
  result,            \* create_pdf: "none" while running, then the returned bool
  lpc,               \* draw loop: "next", "draw", "drawn" ("off": not running)
  in_comment,        \* draw loop: the running in_comment flag
  entry,             \* draw loop: in_comment when the current line was entered
  cur_line,          \* draw loop: the line being drawn
  cur_spans,         \* draw loop: the spans drawn for cur_line
  tpc,               \* draw_code_tokens: "call", "ret" ("off": not running)
  tok_line,          \* draw_code_tokens: its line argument
  tokens,            \* draw_code_tokens: re.findall's result
  tok_spans,         \* draw_code_tokens: tokens with the branch each took
  chunks,            \* flowables of one file: the SyntaxHighlightedCode objects
  renders,           \* flowables of one file: what each draw call drew, per object
  SELECTED_THEME,    \* cli: the module global
  file_input,        \* gui: text of the file input
  run_args,          \* gui: args of the run_cppdf in progress (<< >> when none is)
  gpc,               \* gui: "idle", "starting" inside run_cppdf, "aborted" ("off")
  presses,           \* gui: clicks on the run button so far
  workers            \* gui: the PdfWorker threads started, in order

runVars ==
  <<sys_argv, args, files_to_include, pc, i, elements, warnings, build_pos, drawn,
    pdf_theme, result>>

lineVars == <<lpc, in_comment, entry, cur_line, cur_spans>>

tokVars == <<tpc, tok_line, tokens, tok_spans>>

objVars == <<chunks, renders>>

guiVars == <<SELECTED_THEME, file_input, run_args, gpc, presses, workers>>

vars == <<runVars, lineVars, tokVars, objVars, guiVars>>

\* ------------------------------------------------------------------------
\* Inputs
\* ------------------------------------------------------------------------
\* all sequences over S of length at most n
SeqsUpTo(S, n) == UNION { [1..k -> S] : k \in 0..n }

MaxTokLen == 4

TokChars == {"d", "o", "0", "(", " ", ".", "-", ">", ":", "*", "&", "\"", "'", "é", " "}

TokExamples ==
  { <<"f","o","o","(">>,
    <<"f","o","o"," ","(">>,
    <<"o","b","j",".","m","e","m","b","e","r">>,
    <<"o","b","j","."," ","m","e","m","b","e","r">>,
    <<"i","n","t"," ","*","p"," ","="," ","&","x",";">>,
    <<"s","t","d",":",":","s","t","r","i","n","g"," ","s"," ","="," ","\"","h","t","t","p",":">>,
    <<"p","-",">","g","e","t","(",")">>,
    <<"s","t","d",":",":","m","o","v","e","(","x",")">>,
    <<"i","f","(","a","&","&","b",")">>,
    <<"a",".","i","n","t">>,
    <<"x","=","0","x","1","f","+","1",".","5","f",";">>,
    <<"'","\\","'","'","@","c">>,
    <<"\"","a","\\","\"","b","\"","+","'","c">>,
    <<"c","a","f","é","(">>,
    <<"f","","(">>,
    <<"n","a","ï","v","e"," ","="," ","1",";">>,
    <<"o","."," ","é","²">>,
    <<"x","","(">> }

TokLines == SeqsUpTo(TokChars, MaxTokLen) \cup TokExamples

MaxLineLen == 5

LineChars == {"/", "*", "#", " ", "d", "\"", ""}

LineExamples ==
  { <<"#","i","n","c","l","u","d","e"," ","<","i","o","s","t","r","e","a","m",">">>,
    <<" "," ","#","d","e","f","i","n","e"," ","U","R","L"," ","\"","h","t","t","p",":","/","/","x","\""," ","/","/"," ","c">>,
    <<"s","t","d",":",":","s","t","r","i","n","g"," ","s"," ","="," ","\"","h","t","t","p",":","/","/","x",".","c","o","m","\"",";">>,
    <<"i","n","t"," ","x",";"," ","/","/"," ","/","/"," ","c">>,
    <<"a"," ","/","*"," ","b"," ","*","/"," ","c"," ","/","*"," ","d">>,
    <<"*","/"," ","#","d","e","f","i","n","e"," ","X">>,
    <<"/","*"," ","*","/","#","d","e","f","i","n","e"," ","X">>,
    <<"e","n","d"," ","*","/"," ","x"," ","/","*"," ","o","p","e","n">>,
    <<"/","*"," ","a"," ","*","/"," ","x"," ","/","*"," ","b"," ","*","/">>,
    <<"/","*"," ","a"," ","*","/"," ","x"," ","/","/"," ","c">>,
    <<"","#","d","e","f","i","n","e"," ","X">>,
    <<" ","#","d"," ","/","/"," ","é">>,
    <<"/","*"," ","é"," ","*","/","","ñ","(","1",")">> }

LineInputs == SeqsUpTo(LineChars, MaxLineLen) \cup LineExamples

MaxFiles == 3

MaxChunks == 2

MaxHead == 1

FillerLine == <<"d", ";">>

HotLines ==
  { <<"/","*">>, <<"*","/">>, <<"/","*","/">>, <<"*","/","/","*">>,
    <<"/","*","*","/">>, <<"#","d">> }

\* n filler lines
Pad(n) == [k \in 1..n |-> FillerLine]

PadLens ==
  {0} \cup UNION { {c * max_lines_per_chunk - 1, c * max_lines_per_chunk} : c \in 1..MaxChunks }

\* file texts: a few marker lines, filler up to around a chunk boundary, and
\* at most one marker line after it
Contents ==
  { join(head \o Pad(n) \o tail) :
      head \in SeqsUpTo(HotLines, MaxHead), n \in PadLens, tail \in SeqsUpTo(HotLines, 1) }

\* files whose markers stand on lines of their own or beside code, with
\* comments that are opened and closed across chunk boundaries
MarkerContents ==
  { join(<<<<"/","*">>, <<"*","/">>, <<"x"," ","/","*"," ","y">>>> \o Pad(max_lines_per_chunk) \o <<<<"d",";"," ","*","/">>>>),
    join(<<<<"/","/"," ","/","*">>>> \o Pad(max_lines_per_chunk - 1) \o <<<<"*","/">>>>
           \o Pad(max_lines_per_chunk - 2) \o <<<<"#","d"," ","/","*">>, <<"d",";">>>>),
    join(<<<<"/","*">>, <<"*","/"," ","d",";">>>> \o Pad(max_lines_per_chunk) \o <<<<"/","*">>>>) }

SmallContents ==
  { << >>, join(<<<<"/","*">>>> \o Pad(max_lines_per_chunk) \o <<<<"*","/">>>>) }

Readable(text) == [readable |-> TRUE, code_content |-> text]

Unreadable == [readable |-> FALSE, code_content |-> << >>]

\* files_to_include: one file of any text, or up to MaxFiles files of which
\* any may be unreadable
FileLists ==
  { <<Readable(t)>> : t \in Contents \cup MarkerContents }
    \cup (SeqsUpTo({Unreadable} \cup { Readable(t) : t \in SmallContents }, MaxFiles)
            \ { << >> })

\* create_pdf called directly: every argument left at its default (with
\* output_pdf << >> for None), or every argument given (<<name>> for a name)
ArgChoices ==
  { [code_file |-> <<"a",".","c","p","p">>, output_pdf |-> << >>, student_name |-> << >>,
     assignment_title |-> << >>, course |-> << >>, include_project |-> TRUE],
    [code_file |-> <<"a",".","c","p","p">>, output_pdf |-> <<<<"o",".","p","d","f">>>>,
     student_name |-> <<"J","o","h","n"," ","D","o","e">>,
     assignment_title |-> <<"A","s","s","i","g","n","m","e","n","t"," ","1">>,
     course |-> <<"C","S","1","0","1">>, include_project |-> FALSE] }

\* ------------------------------------------------------------------------
\* THEMES and SELECTED_THEME
\* ------------------------------------------------------------------------
\* THEMES["catppuccin-mocha"]
catppuccin_mocha ==
  [ bg |-> "#1e1e2e",
    bg_page |-> "#11111b",
    border |-> "#313244",
    linenr |-> "#6c7086",
    text |-> "#cdd6f4",
    text_dim |-> "#bac2de",
    comment |-> "#6c7086",
    keyword |-> "#cba6f7",
    function |-> "#89b4fa",
    string |-> "#a6e3a1",
    number |-> "#fab387",
    preproc |-> "#f5c2e7",
    type |-> "#f9e2af",
    variable |-> "#cdd6f4",
    property |-> "#89dceb",
    operator |-> "#94e2d5",
    punctuation |-> "#bac2de" ]

\* THEMES["catppuccin-latte"]
catppuccin_latte ==
  [ bg |-> "#eff1f5",
    bg_page |-> "#e6e9ef",
    border |-> "#ccd0da",
    linenr |-> "#8c8fa1",
    text |-> "#4c4f69",
    text_dim |-> "#5c5f77",
    comment |-> "#9ca0b0",
    keyword |-> "#8839ef",
    function |-> "#1e66f5",
    string |-> "#40a02b",
    number |-> "#fe640b",
    preproc |-> "#ea76cb",
    type |-> "#df8e1d",
    variable |-> "#4c4f69",
    property |-> "#04a5e5",
    operator |-> "#179299",
    punctuation |-> "#5c5f77" ]

\* THEMES["kanagawa-wave"]
kanagawa_wave ==
  [ bg |-> "#1F1F28",
    bg_page |-> "#16161D",
    border |-> "#54546D",
    linenr |-> "#54546D",
    text |-> "#DCD7BA",
    text_dim |-> "#C8C093",
    comment |-> "#727169",
    keyword |-> "#957FB8",
    function |-> "#7E9CD8",
    string |-> "#98BB6C",
    number |-> "#FFA066",
    preproc |-> "#E46876",
    type |-> "#E6C384",
    variable |-> "#DCD7BA",
    property |-> "#7FB4CA",
    operator |-> "#C0A36E",
    punctuation |-> "#C8C093" ]

\* THEMES["kanagawa-dragon"]
kanagawa_dragon ==
  [ bg |-> "#181616",
    bg_page |-> "#0d0c0c",
    border |-> "#625e5a",
    linenr |-> "#625e5a",
    text |-> "#c5c9c5",
    text_dim |-> "#a6a69c",
    comment |-> "#7a8382",
    keyword |-> "#8992a7",
    function |-> "#8ba4b0",
    string |-> "#87a987",
    number |-> "#b98d7b",
    preproc |-> "#c4746e",
    type |-> "#c4b28a",
    variable |-> "#c5c9c5",
    property |-> "#8ea4a2",
    operator |-> "#b6927b",
    punctuation |-> "#9e9b93" ]

\* THEMES["kanagawa-lotus"]
kanagawa_lotus ==
  [ bg |-> "#f2ecbc",
    bg_page |-> "#d5cea3",
    border |-> "#b5cbd2",
    linenr |-> "#b5cbd2",
    text |-> "#545464",
    text_dim |-> "#43436c",
    comment |-> "#9fb5c9",
    keyword |-> "#8a6596",
    function |-> "#6693bf",
    string |-> "#6f894e",
    number |-> "#e98a00",
    preproc |-> "#c84053",
    type |-> "#836f4a",
    variable |-> "#545464",
    property |-> "#4e8ca2",
    operator |-> "#8a6596",
    punctuation |-> "#625e5a" ]

\* THEMES with the "punctuation" entry of kanagawa-lotus left out
THEMES_LotusWithoutPunctuation ==
  "catppuccin-mocha" :> catppuccin_mocha
    @@ "catppuccin-latte" :> catppuccin_latte
    @@ "kanagawa-wave" :> kanagawa_wave
    @@ "kanagawa-dragon" :> kanagawa_dragon
    @@ "kanagawa-lotus" :>
         [k \in (DOMAIN kanagawa_lotus) \ {"punctuation"} |-> kanagawa_lotus[k]]

\* THEMES: palette name -> palette
THEMES ==
  "catppuccin-mocha" :> catppuccin_mocha
    @@ "catppuccin-latte" :> catppuccin_latte
    @@ "kanagawa-wave" :> kanagawa_wave
    @@ "kanagawa-dragon" :> kanagawa_dragon
    @@ "kanagawa-lotus" :> kanagawa_lotus

\* the module-level default of SELECTED_THEME
DefaultTheme == "kanagawa-wave"


\* theme[key] on the palette named name; "KeyError" when the key is absent
Lookup(name, key) ==
  IF key \in DOMAIN THEMES[name] THEN THEMES[name][key] ELSE "KeyError"

\* the keys create_pdf reads for the header styles
StyleKeys == {"text", "function", "bg", "border", "text_dim"}

\* the key on_page reads
PageKeys == {"bg_page"}

\* the keys draw reads before its line loop
BoxKeys == {"bg", "border"}

\* the keys one line's spans are painted with
SpanKeys(spans) ==
  { ThemeKey(spans[k].cat) : k \in { j \in 1..Len(spans) : spans[j].cat # "Whitespace" } }

\* some key of keys is missing from the palette named name
Raises(name, keys) == \E key \in keys : Lookup(name, key) = "KeyError"

\* ------------------------------------------------------------------------
\* main: the command line
\* ------------------------------------------------------------------------
\* str.lower() on one character: the characters up to "\xff" that it changes
LowerChar ==
  "A" :> "a" @@ "B" :> "b" @@ "C" :> "c" @@ "D" :> "d" @@ "E" :> "e" @@ "F" :> "f" @@
  "G" :> "g" @@ "H" :> "h" @@ "I" :> "i" @@ "J" :> "j" @@ "K" :> "k" @@ "L" :> "l" @@
  "M" :> "m" @@ "N" :> "n" @@ "O" :> "o" @@ "P" :> "p" @@ "Q" :> "q" @@ "R" :> "r" @@
  "S" :> "s" @@ "T" :> "t" @@ "U" :> "u" @@ "V" :> "v" @@ "W" :> "w" @@ "X" :> "x" @@
  "Y" :> "y" @@ "Z" :> "z" @@ "À" :> "à" @@ "Á" :> "á" @@ "Â" :> "â" @@ "Ã" :> "ã" @@
  "Ä" :> "ä" @@ "Å" :> "å" @@ "Æ" :> "æ" @@ "Ç" :> "ç" @@ "È" :> "è" @@ "É" :> "é" @@
  "Ê" :> "ê" @@ "Ë" :> "ë" @@ "Ì" :> "ì" @@ "Í" :> "í" @@ "Î" :> "î" @@ "Ï" :> "ï" @@
  "Ð" :> "ð" @@ "Ñ" :> "ñ" @@ "Ò" :> "ò" @@ "Ó" :> "ó" @@ "Ô" :> "ô" @@ "Õ" :> "õ" @@
  "Ö" :> "ö" @@ "Ø" :> "ø" @@ "Ù" :> "ù" @@ "Ú" :> "ú" @@ "Û" :> "û" @@ "Ü" :> "ü" @@
  "Ý" :> "ý" @@ "Þ" :> "þ"

\* s.lower()
lower(s) == [k \in 1..Len(s) |-> IF s[k] \in DOMAIN LowerChar THEN LowerChar[s[k]] ELSE s[k]]

\* the keys of THEMES as Python strs
Spell ==
  "catppuccin-mocha" :> <<"c","a","t","p","p","u","c","c","i","n","-","m","o","c","h","a">> @@
  "catppuccin-latte" :> <<"c","a","t","p","p","u","c","c","i","n","-","l","a","t","t","e">> @@
  "kanagawa-wave" :> <<"k","a","n","a","g","a","w","a","-","w","a","v","e">> @@
  "kanagawa-dragon" :> <<"k","a","n","a","g","a","w","a","-","d","r","a","g","o","n">> @@
  "kanagawa-lotus" :> <<"k","a","n","a","g","a","w","a","-","l","o","t","u","s">>

\* theme in THEMES
InThemes(theme) == \E n \in DOMAIN THEMES : Spell[n] = theme

\* the key of THEMES that theme is
ThemeNamed(theme) == CHOOSE n \in DOMAIN THEMES : Spell[n] = theme

OptTheme == <<"-","-","t","h","e","m","e">>

OptOutput == { <<"-","o">>, <<"-","-","o","u","t","p","u","t">> }

OptName == { <<"-","n">>, <<"-","-","n","a","m","e">> }

OptTitle == { <<"-","t">>, <<"-","-","t","i","t","l","e">> }

OptCourse == { <<"-","c">>, <<"-","-","c","o","u","r","s","e">> }

OptNoProject == <<"-","-","n","o","-","p","r","o","j","e","c","t">>

\* the locals of main before its loop, with the global it assigns; output_pdf
\* is << >> for None and <<name>> for a name
MainLocals(code_file, selected) ==
  [ code_file |-> code_file, output_pdf |-> << >>, student_name |-> << >>,
    assignment_title |-> << >>, course |-> << >>, include_project |-> TRUE,
    SELECTED_THEME |-> selected, status |-> "loop" ]

\* sys.argv[i + 1] exists, for i = j
HasValue(argv, j) == j + 1 < Len(argv)

\* the while loop of main from i = j (0-based: sys.argv[j] is argv[j + 1]);
\* status tells how main goes on: "create_pdf" when the loop ends, the exit
\* taken by sys.exit(1), or the IndexError of sys.argv[i + 1]
RECURSIVE ArgLoop(_, _, _)
ArgLoop(argv, j, m) ==
  IF ~(j < Len(argv)) THEN [m EXCEPT !.status = "create_pdf"]
  ELSE LET a == argv[j + 1] IN
  IF a = OptTheme
  THEN IF ~HasValue(argv, j) THEN [m EXCEPT !.status = "IndexError"]
       ELSE LET theme == lower(argv[j + 2]) IN
            IF ~InThemes(theme) THEN [m EXCEPT !.status = "Unknown theme"]
            ELSE ArgLoop(argv, j + 2, [m EXCEPT !.SELECTED_THEME = ThemeNamed(theme)])
  ELSE IF a \in OptOutput \cup OptName \cup OptTitle \cup OptCourse
  THEN IF ~HasValue(argv, j) THEN [m EXCEPT !.status = "IndexError"]
       ELSE IF a \in OptOutput
            THEN ArgLoop(argv, j + 2, [m EXCEPT !.output_pdf = <<argv[j + 2]>>])
       ELSE IF a \in OptName
            THEN ArgLoop(argv, j + 2, [m EXCEPT !.student_name = argv[j + 2]])
       ELSE IF a \in OptTitle
            THEN ArgLoop(argv, j + 2, [m EXCEPT !.assignment_title = argv[j + 2]])
       ELSE ArgLoop(argv, j + 2, [m EXCEPT !.course = argv[j + 2]])
  ELSE IF a = OptNoProject
  THEN ArgLoop(argv, j + 1, [m EXCEPT !.include_project = FALSE])
  ELSE [m EXCEPT !.status = "Unknown option"]

\* main() up to the call of create_pdf, entered with SELECTED_THEME = selected
main(argv, selected) ==
  IF Len(argv) < 2 THEN [MainLocals(<< >>, selected) EXCEPT !.status = "usage"]
  ELSE ArgLoop(argv, 2, MainLocals(argv[2], selected))

\* the arguments of create_pdf(code_file, output_pdf, student_name,
\* assignment_title, course, include_project)
CallArgs(m) ==
  [ code_file |-> m.code_file, output_pdf |-> m.output_pdf,
    student_name |-> m.student_name, assignment_title |-> m.assignment_title,
    course |-> m.course, include_project |-> m.include_project ]

\* sys.argv[0] and the code file named on the command line
ProgName == <<"c","l","i",".","p","y">>

CodeFile == <<"/","b","/","b",".","h">>

MaxArgs == 3

\* the words that follow the code file
ArgWords ==
  { <<"-","-","t","h","e","m","e">>,
    <<"k","a","n","a","g","a","w","a","-","l","o","t","u","s">>,
    <<"C","a","t","p","p","u","c","c","i","n","-","L","a","t","t","e">>,
    <<"-","-","n","o","-","p","r","o","j","e","c","t">>,
    <<"-","o">> }

ArgvExamples ==
  {
    <<<<"c","l","i",".","p","y">>>>,
    <<<<"c","l","i",".","p","y">>, <<"/","b","/","b",".","h">>, <<"-","-","t","h","e","m","e">>, <<"k","a","n","a","g","a","w","a","-","l","o","t","u","s">>, <<"-","o">>, <<"/","o",".","p","d","f">>>>,
    <<<<"c","l","i",".","p","y">>, <<"/","b","/","b",".","h">>, <<"-","-","t","h","e","m","e">>, <<"s","o","l","a","r","i","z","e","d">>>>,
    <<<<"c","l","i",".","p","y">>, <<"/","b","/","b",".","h">>, <<"-","n">>, <<"J","o","h","n"," ","D","o","e">>, <<"-","t">>, <<"A","s","s","i","g","n","m","e","n","t"," ","1">>, <<"-","c">>, <<"C","S","1","0","1">>>>,
    <<<<"c","l","i",".","p","y">>, <<"/","b","/","b",".","h">>, <<"-","-","n","a","m","e">>, <<"-","n">>, <<"-","-","t","i","t","l","e">>, <<>>, <<"-","-","c","o","u","r","s","e">>, <<"-","-","t","h","e","m","e">>, <<"-","-","o","u","t","p","u","t">>, <<"-","-","n","o","-","p","r","o","j","e","c","t">>>>,
    <<<<"c","l","i",".","p","y">>, <<"/","b","/","b",".","h">>, <<"-","-","t","h","e","m","e">>, <<"k","a","n","a","g","a","w","a","-","d","r","a","g","o","n">>, <<"-","-","b","o","g","u","s">>>>,
    <<<<"c","l","i",".","p","y">>, <<"/","b","/","b",".","h">>, <<"-","-","t","h","e","m","e">>, <<"c","a","t","p","p","u","c","c","i","n","-","m","o","c","h","a">>, <<"-","-","t","h","e","m","e">>, <<"K","A","N","A","G","A","W","A","-","W","A","V","E">>>>,
    <<<<"c","l","i",".","p","y">>, <<"-","-","t","h","e","m","e">>, <<"k","a","n","a","g","a","w","a","-","l","o","t","u","s">>>>,
    <<<<"c","l","i",".","p","y">>, <<"/","b","/","b",".","h">>, <<"-","c">>>> }

\* sys.argv: the program and the code file followed by up to MaxArgs words,
\* and the examples
Argvs == { <<ProgName, CodeFile>> \o w : w \in SeqsUpTo(ArgWords, MaxArgs) } \cup ArgvExamples

\* files_to_include of the runs started from the command line
MainFileLists ==
  { <<Readable(<<"/","*","\n","*","/"," ","d",";">>)>>,
    <<Unreadable, Readable(<<"#","d">>)>> }

\* ------------------------------------------------------------------------
\* Initial states
\* ------------------------------------------------------------------------
RunOff ==
  /\ sys_argv = << >>
  /\ args = << >>
  /\ pdf_theme = ""
  /\ files_to_include = << >>
  /\ pc = "off"
  /\ i = 0
  /\ elements = << >>
  /\ warnings = << >>
  /\ build_pos = 0
  /\ drawn = << >>
  /\ result = "none"

LineOff ==
  /\ lpc = "off"
  /\ in_comment = FALSE
  /\ entry = FALSE
  /\ cur_line = << >>
  /\ cur_spans = << >>

TokOff ==
  /\ tpc = "off"
  /\ tok_line = << >>
  /\ tokens = << >>
  /\ tok_spans = << >>

ObjOff ==
  /\ chunks = << >>
  /\ renders = << >>

\* no window: SELECTED_THEME keeps its module-level value
GuiOff ==
  /\ SELECTED_THEME = DefaultTheme
  /\ file_input = ""
  /\ run_args = << >>
  /\ gpc = "off"
  /\ presses = 0
  /\ workers = << >>

\* create_pdf is entered with its arguments and the files found; with
\* include_project=False the code file is the only file
InitRun ==
  /\ sys_argv = << >>
  /\ args \in ArgChoices
  /\ files_to_include \in FileLists
  /\ ~args.include_project => Len(files_to_include) = 1
  /\ pc = "start"
  /\ pdf_theme = ""
  /\ i = 0
  /\ elements = << >>
  /\ warnings = << >>
  /\ build_pos = 0
  /\ drawn = << >>
  /\ result = "none"

\* draw is entered on a block whose first line is outside a comment
InitLine ==
  /\ lpc = "next"
  /\ in_comment = FALSE
  /\ entry = FALSE
  /\ cur_line = << >>
  /\ cur_spans = << >>

\* draw_code_tokens is called on a line
InitTok ==
  /\ tpc = "call"
  /\ tok_line \in TokLines
  /\ tokens = << >>
  /\ tok_spans = << >>

\* main is entered with sys.argv; the files are those create_pdf will find
InitMain ==
  /\ sys_argv \in Argvs
  /\ args = << >>
  /\ files_to_include \in MainFileLists
  /\ main(sys_argv, DefaultTheme).include_project \/ Len(files_to_include) = 1
  /\ pc = "main"
  /\ i = 0
  /\ elements = << >>
  /\ warnings = << >>
  /\ build_pos = 0
  /\ drawn = << >>
  /\ pdf_theme = ""
  /\ result = "none"

Init == (InitRun \/ InitMain) /\ LineOff /\ TokOff /\ ObjOff /\ GuiOff

\* ------------------------------------------------------------------------
\* main
\* ------------------------------------------------------------------------
\* main(): the usage text or the option loop, which assigns SELECTED_THEME
\* at each --theme; then sys.exit(1), the IndexError of a missing value, or
\* the call of create_pdf
Main ==
  /\ pc = "main"
  /\ LET m == main(sys_argv, SELECTED_THEME) IN
       /\ SELECTED_THEME' = m.SELECTED_THEME
       /\ IF m.status = "create_pdf"
          THEN args' = CallArgs(m) /\ pc' = "start"
          ELSE UNCHANGED args /\ pc' = "exit"
  /\ UNCHANGED <<sys_argv, files_to_include, i, elements, warnings, build_pos, drawn,
                 pdf_theme, result>>
  /\ UNCHANGED <<file_input, run_args, gpc, presses, workers>>
  /\ UNCHANGED <<lineVars, tokVars, objVars>>

\* ------------------------------------------------------------------------
\* create_pdf, step by step
\* ------------------------------------------------------------------------
\* everything before the file loop; theme = THEMES[SELECTED_THEME]
BuildPrelude ==
  /\ pc = "start"
  /\ pdf_theme' = SELECTED_THEME
  /\ elements' = Prelude(args, files_to_include)
  /\ pc' = "files"
  /\ UNCHANGED <<sys_argv, args, files_to_include, i, warnings, build_pos, drawn, result>>
  /\ UNCHANGED <<lineVars, tokVars, objVars, guiVars>>

AfterFile(n) == IF n = Len(files_to_include) THEN "build" ELSE "files"

\* if i > 0: elements.append(PageBreak())
Break(k) == IF k > 0 THEN <<PageBreak>> ELSE << >>

\* one iteration of the file loop on a file that open/read succeeds on
AppendFile ==
  /\ pc = "files"
  /\ i < Len(files_to_include)
  /\ files_to_include[i + 1].readable
  /\ elements' = elements \o Break(i)
                   \o <<Paragraph("FileHeader", "File", i + 1), Spacer>>
                   \o CodeFlowables(files_to_include[i + 1].code_content)
                   \o <<Spacer>>
  /\ i' = i + 1
  /\ pc' = AfterFile(i + 1)
  /\ UNCHANGED <<sys_argv, args, pdf_theme, files_to_include, warnings, build_pos, drawn, result>>
  /\ UNCHANGED <<lineVars, tokVars, objVars, guiVars>>

\* the read failure ending the run (return False in place of continue)
SkipFile_Aborts ==
  /\ pc = "files"
  /\ i < Len(files_to_include)
  /\ ~files_to_include[i + 1].readable
  /\ elements' = elements \o Break(i)
  /\ warnings' = Append(warnings, i + 1)
  /\ pc' = "done"
  /\ result' = FALSE
  /\ UNCHANGED <<sys_argv, args, pdf_theme, files_to_include, i, build_pos, drawn>>
  /\ UNCHANGED <<lineVars, tokVars, objVars, guiVars>>

\* one iteration of the file loop on a file that cannot be read: the page
\* break is already appended, the warning is printed, continue
SkipFile ==
  /\ pc = "files"
  /\ i < Len(files_to_include)
  /\ ~files_to_include[i + 1].readable
  /\ elements' = elements \o Break(i)
  /\ warnings' = Append(warnings, i + 1)
  /\ i' = i + 1
  /\ pc' = AfterFile(i + 1)
  /\ UNCHANGED <<sys_argv, args, pdf_theme, files_to_include, build_pos, drawn, result>>
  /\ UNCHANGED <<lineVars, tokVars, objVars, guiVars>>

\* the first code flowable after position pos of elements, 0 when none is left
NextCode(pos) ==
  LET later == { k \in (pos + 1)..Len(elements) : elements[k].kind = "Code" } IN
  IF later = {} THEN 0 ELSE CHOOSE k \in later : \A m \in later : k <= m

\* doc.build lays the elements out in order and calls draw on the next code
\* flowable
DrawNext ==
  /\ pc = "build"
  /\ NextCode(build_pos) # 0
  /\ build_pos' = NextCode(build_pos)
  /\ drawn' = Append(drawn, draw(elements[NextCode(build_pos)]))
  /\ UNCHANGED <<sys_argv, args, pdf_theme, files_to_include, pc, i, elements, warnings, result>>
  /\ UNCHANGED <<lineVars, tokVars, objVars, guiVars>>

\* doc.build returns: create_pdf returns True
BuildDone ==
  /\ pc = "build"
  /\ NextCode(build_pos) = 0
  /\ pc' = "done"
  /\ result' = TRUE
  /\ UNCHANGED <<sys_argv, args, pdf_theme, files_to_include, i, elements, warnings, build_pos, drawn>>
  /\ UNCHANGED <<lineVars, tokVars, objVars, guiVars>>

\* doc.build raises: create_pdf prints the error and returns False
BuildFail ==
  /\ pc = "build"
  /\ pc' = "done"
  /\ result' = FALSE
  /\ UNCHANGED <<sys_argv, args, pdf_theme, files_to_include, i, elements, warnings, build_pos, drawn>>
  /\ UNCHANGED <<lineVars, tokVars, objVars, guiVars>>

Next == Main \/ BuildPrelude \/ AppendFile \/ SkipFile \/ DrawNext \/ BuildDone \/ BuildFail

Spec == Init /\ [][Next]_vars

\* ------------------------------------------------------------------------
\* The draw loop on an open-ended block of lines
\* ------------------------------------------------------------------------
\* for line_num, line in enumerate(self.lines, self.start_line)
NextLine ==
  /\ lpc = "next"
  /\ cur_line' \in LineInputs
  /\ cur_spans' = << >>
  /\ entry' = in_comment
  /\ lpc' = "draw"
  /\ UNCHANGED in_comment
  /\ UNCHANGED <<runVars, tokVars, objVars, guiVars>>

\* in_comment = self.draw_highlighted_line(canvas, line, x_offset, y, in_comment)
DrawLine ==
  /\ lpc = "draw"
  /\ LET r == draw_highlighted_line(cur_line, 0, in_comment) IN
       /\ cur_spans' = r.spans
       /\ in_comment' = r.ret
  /\ lpc' = "drawn"
  /\ UNCHANGED <<entry, cur_line>>
  /\ UNCHANGED <<runVars, tokVars, objVars, guiVars>>

\* y_position -= self.line_height: the line's spans are on the canvas
Advance ==
  /\ lpc = "drawn"
  /\ lpc' = "next"
  /\ cur_line' = << >>
  /\ cur_spans' = << >>
  /\ entry' = in_comment
  /\ UNCHANGED in_comment
  /\ UNCHANGED <<runVars, tokVars, objVars, guiVars>>

NextDraw == NextLine \/ DrawLine \/ Advance

InitDraw == RunOff /\ InitLine /\ TokOff /\ ObjOff /\ GuiOff

SpecLine == InitDraw /\ [][NextDraw]_vars

\* ------------------------------------------------------------------------
\* draw_code_tokens on one line
\* ------------------------------------------------------------------------
DrawCodeTokens ==
  /\ tpc = "call"
  /\ tokens' = Tokenize(tok_line)
  /\ tok_spans' = draw_code_tokens(tok_line, 0).spans
  /\ tpc' = "ret"
  /\ UNCHANGED tok_line
  /\ UNCHANGED <<runVars, lineVars, objVars, guiVars>>

NextTok == DrawCodeTokens

InitCall == RunOff /\ LineOff /\ InitTok /\ ObjOff /\ GuiOff

SpecTok == InitCall /\ [][NextTok]_vars

\* ------------------------------------------------------------------------
\* The flowables of one file, drawn in any order and any number of times
\* ------------------------------------------------------------------------
MaxDraws == 3

ObjHeads == { <<"/","*">>, <<"/","*","/">>, <<"#","d">> }

ObjTails == { << >>, <<<<"*","/">>>>, <<<<"*","/"," ","/","*">>>> }

\* files of one or two chunks that open a comment, or not, in the first
ObjContents ==
  { join(<<head>> \o Pad(n) \o tail) :
      head \in ObjHeads, n \in {0, max_lines_per_chunk - 1, max_lines_per_chunk},
      tail \in ObjTails }

\* the object with draw storing its local flag in self.in_block_comment
AfterDraw_StoresFlag(self, flag) == [self EXCEPT !.in_block_comment = flag]

\* self when draw returns: draw assigns to no attribute of self; flag
\* is its local in_comment after the last line
AfterDraw(self, flag) == self

\* the file is read and its flowables are appended to elements
InitObj ==
  /\ \E code_content \in ObjContents : chunks = CodeFlowables(code_content)
  /\ renders = [k \in 1..Len(chunks) |-> << >>]

\* draw calls made so far
Draws == LET n[k \in 0..Len(renders)] == IF k = 0 THEN 0 ELSE n[k - 1] + Len(renders[k])
         IN  n[Len(renders)]

\* self.draw() on the k-th flowable of the file
Draw(k) ==
  /\ Draws < MaxDraws
  /\ LET self == chunks[k]
         r == DrawLoop(self.lines, 1, Len(self.lines), self.start_line, self.in_block_comment)
     IN  /\ renders' = [renders EXCEPT ![k] = Append(@, r.out)]
         /\ chunks' = [chunks EXCEPT ![k] = AfterDraw(self, r.in_comment)]
  /\ UNCHANGED <<runVars, lineVars, tokVars, guiVars>>

DrawAny == \E k \in 1..Len(chunks) : Draw(k)

NextObj == DrawAny

InitFlowables == RunOff /\ LineOff /\ TokOff /\ InitObj /\ GuiOff

SpecDraw == InitFlowables /\ [][NextObj]_vars

\* ------------------------------------------------------------------------
\* The window: run_cppdf on the GUI thread, create_pdf on PdfWorker threads
\* ------------------------------------------------------------------------
MaxRuns == 2

\* the items of theme_box
ThemeChoices == DOMAIN THEMES

\* the directory the user works in: its C++ files by path, each with its
\* suffix and the lines of its text
GuiFiles ==
  "a.cpp" :> [suffix |-> ".cpp", lines |-> << <<"#","d">>, <<"/","*"," ","x">>, <<"y"," ","*","/"," ","f","(","o",".","m",")",";","/","/","c">> >>]
    @@ "b.h" :> [suffix |-> ".h", lines |-> << <<"/","*","c","*","/","i","f","(","s",":",":","x","=","=","\"","s","\"",")","*","p","=","1",";">> >>]

\* the paths of the directory in ascending order
GuiPaths == <<"a.cpp", "b.h">>

\* the files the user picks in the file dialog
FileChoices == DOMAIN GuiFiles

IsHeader(filepath) == GuiFiles[filepath].suffix \in {".h", ".hpp", ".hxx", ".h++"}

IsSource(filepath) == ~IsHeader(filepath)

\* find_cpp_project_files(start_path): the C++ files of the directory of
\* start_path, headers first, each group in path order
find_cpp_project_files(start_path) ==
  SelectSeq(GuiPaths, IsHeader) \o SelectSeq(GuiPaths, IsSource)

\* files_to_include of create_pdf(**a)
FilesToInclude(a) ==
  IF a.include_project THEN find_cpp_project_files(a.code_file) ELSE <<a.code_file>>

\* PdfWorker(args), not yet started on create_pdf
PdfWorker(a) ==
  [ pc |-> "run",            \* "run", "draw", "lines", "return", "done"
    args |-> a,              \* code_file and include_project of self.args
    theme |-> "",            \* create_pdf: the palette bound to its local theme
    file |-> 0,              \* doc.build: files whose flowable is drawn
    box_theme |-> "",        \* draw: the palette bound to its local theme
    pos |-> 0,               \* draw: lines drawn
    call |-> 0,              \* draw: calls entered for the line being drawn
    bound |-> << >>,         \* the palettes bound by the calls of the last line entered
    in_comment |-> FALSE,    \* draw: its local in_comment
    palettes |-> {},         \* the palettes read from SELECTED_THEME by the draw methods
    raised |-> FALSE ]       \* a lookup raised KeyError

\* a worker whose run has returned and that self.worker no longer refers
\* to: the object is deallocated
Gone == [PdfWorker(<< >>) EXCEPT !.pc = "done"]

\* the workers once self.worker is assigned anew: the worker it referred
\* to is deallocated when its thread has finished
Released ==
  IF workers # << >> /\ workers[Len(workers)].pc = "done"
  THEN [workers EXCEPT ![Len(workers)] = Gone]
  ELSE workers

\* the window is shown: nothing typed, no run_cppdf in progress
InitGui ==
  /\ SELECTED_THEME = DefaultTheme
  /\ file_input = ""
  /\ run_args = << >>
  /\ gpc = "idle"
  /\ presses = 0
  /\ workers = << >>

\* the user picks a file: browse_file fills file_input
BrowseFile ==
  /\ gpc = "idle"
  /\ presses < MaxRuns
  /\ \E f \in FileChoices \ {file_input} : file_input' = f
  /\ UNCHANGED <<SELECTED_THEME, run_args, gpc, presses, workers>>
  /\ UNCHANGED <<runVars, lineVars, tokVars, objVars>>

\* run_cppdf with no file selected: the error is shown and nothing is started,
\* SELECTED_THEME is not assigned
RunNoFile ==
  /\ gpc = "idle"
  /\ presses < MaxRuns
  /\ file_input = ""
  /\ presses' = presses + 1
  /\ UNCHANGED <<SELECTED_THEME, file_input, run_args, gpc, workers>>
  /\ UNCHANGED <<runVars, lineVars, tokVars, objVars>>

\* run_cppdf up to self.console.append, with the palette theme_box shows
\* and the state of project_box as the user left them: args is built and
\* cli.SELECTED_THEME is assigned
RunSetTheme ==
  /\ gpc = "idle"
  /\ presses < MaxRuns
  /\ file_input # ""
  /\ \E currentText \in ThemeChoices, isChecked \in BOOLEAN :
        /\ run_args' = [code_file |-> file_input, include_project |-> isChecked]
        /\ SELECTED_THEME' = currentText
  /\ presses' = presses + 1
  /\ gpc' = "starting"
  /\ UNCHANGED <<file_input, workers>>
  /\ UNCHANGED <<runVars, lineVars, tokVars, objVars>>

\* the thread of the worker self.worker refers to has not left run
Running == workers # << >> /\ workers[Len(workers)].pc # "done"

\* run_cppdf from self.worker = PdfWorker(args): the new thread is started
\* whatever the worker self.worker referred to is doing; a worker still
\* running goes on running, a finished one is deallocated
RunStartWorker ==
  /\ gpc = "starting"
  /\ workers' = Append(Released, PdfWorker(run_args))
  /\ run_args' = << >>
  /\ gpc' = "idle"
  /\ UNCHANGED <<SELECTED_THEME, file_input, presses>>
  /\ UNCHANGED <<runVars, lineVars, tokVars, objVars>>

\* self.worker = PdfWorker(args) drops the last reference to a QThread that
\* is still running: the thread object is destroyed and the process ends
RunDestroysWorker ==
  /\ gpc = "starting"
  /\ Running
  /\ gpc' = "aborted"
  /\ UNCHANGED <<SELECTED_THEME, file_input, run_args, presses, workers>>
  /\ UNCHANGED <<runVars, lineVars, tokVars, objVars>>

\* worker w takes a step that leaves it as next
Step(w, next) ==
  /\ gpc # "aborted"
  /\ workers' = [workers EXCEPT ![w] = next]
  /\ UNCHANGED <<SELECTED_THEME, file_input, run_args, gpc, presses>>
  /\ UNCHANGED <<runVars, lineVars, tokVars, objVars>>

\* draw has returned: its locals are gone
Returned(self) ==
  [self EXCEPT !.box_theme = "", !.pos = 0, !.call = 0, !.bound = << >>,
               !.in_comment = FALSE]

\* a KeyError ends the painting: the except of doc.build or of run catches
\* it, and the thread is still inside run
Fail(self) == [Returned(self) EXCEPT !.pc = "return", !.raised = TRUE]

\* create_pdf up to doc.build: theme = THEMES[SELECTED_THEME] and the
\* paragraph styles; on_page, called by doc.build for the page, paints with
\* the same local theme
CreateStyles(w) ==
  /\ workers[w].pc = "run"
  /\ LET self == [workers[w] EXCEPT !.theme = SELECTED_THEME] IN
     Step(w, IF Raises(self.theme, StyleKeys \cup PageKeys) THEN Fail(self)
             ELSE [self EXCEPT !.pc = "draw"])

\* draw up to its line loop: theme = THEMES[SELECTED_THEME], background and borders
DrawBox(w) ==
  /\ workers[w].pc = "draw"
  /\ LET self == [workers[w] EXCEPT !.box_theme = SELECTED_THEME,
                                    !.palettes = @ \cup {SELECTED_THEME}] IN
     Step(w, IF Raises(self.box_theme, BoxKeys) THEN Fail(self)
             ELSE [self EXCEPT !.pc = "lines"])

\* a call that binds theme = THEMES[SELECTED_THEME] on entry: the function,
\* the text it is called on, the keys it looks up in that theme before the
\* next call is entered, and late, the lookups made after it has returned
\* and before the next call is entered: <<j, key>> is a lookup of key in the
\* theme the j-th call of the line bound
Call(fn, text, keys, late) == [fn |-> fn, text |-> text, keys |-> keys, late |-> late]

\* self.draw_code_tokens(canvas, text, ...)
TokensCall(text) == <<Call("draw_code_tokens", text, {}, {})>>

\* if text: self.draw_code_tokens(canvas, text, ...)
TokensCallIf(text) == IF text # << >> THEN TokensCall(text) ELSE << >>

\* draw_highlighted_line paints a comment with theme["comment"] after the
\* code before it: with no code before it the lookup follows its own entry,
\* otherwise it follows the return of draw_code_tokens(before)
CommentAfter(line, before) ==
  IF before = << >>
  THEN <<Call("draw_highlighted_line", line, {"comment"}, {})>>
  ELSE <<Call("draw_highlighted_line", line, {}, {}),
         Call("draw_code_tokens", before, {}, {<<1, "comment">>})>>

\* the calls of a recursive draw_highlighted_line, made as call by + 1 of the line
Shifted(calls, by) ==
  [k \in 1..Len(calls) |->
     [calls[k] EXCEPT !.late = { <<p[1] + by, p[2]>> : p \in @ }]]

\* the keys call c looks up in the theme it bound
CallKeys(c) ==
  IF c.fn = "draw_code_tokens" THEN SpanKeys(draw_code_tokens(c.text, 0).spans)
  ELSE c.keys

\* the calls draw_highlighted_line(line, in_block_comment) makes, itself
\* first, in the order they are entered, and the flag it returns: each call
\* reads SELECTED_THEME once, on entry, and paints with the palette it read
RECURSIVE LineCalls(_, _)
LineCalls(line, in_block_comment) ==
  IF in_block_comment
  THEN LET end_pos == find(line, <<"*","/">>, 0)
           rest_of_line == SliceFrom(line, end_pos + 2)
       IN  IF end_pos # -1
           THEN [calls |-> <<Call("draw_highlighted_line", line, {"comment"}, {})>>
                             \o (IF rest_of_line # << >>
                                 THEN Shifted(LineCalls(rest_of_line, FALSE).calls, 1)
                                 ELSE << >>),
                 ret |-> FALSE]
           ELSE [calls |-> <<Call("draw_highlighted_line", line, {"comment"}, {})>>,
                 ret |-> TRUE]
  ELSE
  LET block_comment_start == find(line, <<"/","*">>, 0) IN
  IF block_comment_start # -1
  THEN LET block_comment_end == find(line, <<"*","/">>, block_comment_start + 2)
           before == SliceTo(line, block_comment_start)
       IN  IF block_comment_end # -1
           THEN [calls |-> CommentAfter(line, before)
                             \o TokensCallIf(SliceFrom(line, block_comment_end + 2)),
                 ret |-> FALSE]
           ELSE [calls |-> CommentAfter(line, before), ret |-> TRUE]
  ELSE IF IsPreprocessor(line)
  THEN [calls |-> <<Call("draw_highlighted_line", line, {"preproc"}, {})>>, ret |-> FALSE]
  ELSE IF contains(line, <<"/","/">>)
  THEN [calls |-> CommentAfter(line, SliceTo(line, find(line, <<"/","/">>, 0))),
        ret |-> FALSE]
  ELSE [calls |-> <<Call("draw_highlighted_line", line, {}, {})>> \o TokensCall(line),
        ret |-> FALSE]

\* the line loop of draw, one call at a time. Before the first call of a
\* line the line number is painted with the theme draw bound; then the next
\* call made for the line binds its theme from SELECTED_THEME as it is at
\* that moment and the painting goes on up to the entry of the call after
\* it, with the lookups of the call and the late lookups of the calls around
\* it; after the line's last call in_comment is assigned and the loop goes
\* on. After the last line of a file doc.build goes on to the flowable of
\* the next file, and after the last file the thread is still inside run
DrawFileLine(w) ==
  /\ workers[w].pc = "lines"
  /\ LET self == workers[w]
         files == FilesToInclude(self.args)
         lines == GuiFiles[files[self.file + 1]].lines
         r == LineCalls(lines[self.pos + 1], self.in_comment)
         k == self.call + 1
         read == [self EXCEPT !.palettes = @ \cup {SELECTED_THEME},
                              !.bound = IF k = 1 THEN <<SELECTED_THEME>>
                                        ELSE Append(@, SELECTED_THEME)]
     IN  Step(w, IF k = 1 /\ Raises(self.box_theme, {"linenr"})
                 THEN Fail(self)
                 ELSE IF \/ Raises(SELECTED_THEME, CallKeys(r.calls[k]))
                         \/ \E p \in r.calls[k].late : Raises(read.bound[p[1]], {p[2]})
                 THEN Fail(read)
                 ELSE IF k < Len(r.calls) THEN [read EXCEPT !.call = k]
                 ELSE IF self.pos + 1 < Len(lines)
                 THEN [read EXCEPT !.call = 0, !.pos = @ + 1, !.in_comment = r.ret]
                 ELSE IF self.file + 1 < Len(files)
                 THEN [Returned(read) EXCEPT !.file = @ + 1, !.pc = "draw"]
                 ELSE [Returned(read) EXCEPT !.file = @ + 1, !.pc = "return"])

\* the rest of run: doc.build ends, create_pdf returns and its locals are
\* gone, finished is emitted and run returns; self.args stays with the
\* worker while self.worker refers to it
RunReturns(w) ==
  /\ workers[w].pc = "return"
  /\ Step(w, IF w = Len(workers)
             THEN [PdfWorker(workers[w].args) EXCEPT !.pc = "done",
                                                     !.raised = workers[w].raised]
             ELSE Gone)

WorkerStep ==
  \E w \in 1..Len(workers) :
     CreateStyles(w) \/ DrawBox(w) \/ DrawFileLine(w) \/ RunReturns(w)

NextGui ==
  \/ BrowseFile
  \/ RunNoFile
  \/ RunSetTheme
  \/ RunStartWorker
  \/ RunDestroysWorker
  \/ WorkerStep

InitWindow == RunOff /\ LineOff /\ TokOff /\ ObjOff /\ InitGui

SpecGui == InitWindow /\ [][NextGui]_vars

\* ------------------------------------------------------------------------
\* Properties of the tokenizer and classifier (SpecTok)
\* ------------------------------------------------------------------------
\* the characters the lexical rules name: letters, digits, underscore, the
\* operator and bracket characters, both quotes, blank and tab
CoveredChars ==
  Letters \cup Digits
    \cup { "_", "+", "-", "*", "/", "%", "=", "<", ">", "!", "&", "|", "^", "~", "?", ":",
           "(", ")", "[", "]", "{", "}", ";", ",", ".", "#", "\"", "'", " ", "\t" }

IsCovered(line) == \A k \in 1..Len(line) : line[k] \in CoveredChars

QuoteChars == {"\"", "'"}

\* every quote character of s from position p on opens a literal that a
\* later, equal quote character closes, or lies inside such a literal
RECURSIVE QuotesTerminated(_, _)
QuotesTerminated(s, p) ==
  LET opens == { k \in p..Len(s) : s[k] \in QuoteChars } IN
  IF opens = {} THEN TRUE
  ELSE LET o == CHOOSE k \in opens : \A m \in opens : k <= m
           closes == { k \in (o + 1)..Len(s) : s[k] = s[o] }
       IN  IF closes = {} THEN FALSE
           ELSE QuotesTerminated(s, (CHOOSE k \in closes : \A m \in closes : k <= m) + 1)

\* the token at position k of the stream looks like a name and is in
\* neither vocabulary
PlainName(k) ==
  /\ IsIdent(tokens[k])
  /\ tokens[k] \notin keywords
  /\ tokens[k] \notin types

\* the category given to the only token of the stream whose text is t
CatOf(t) ==
  LET ks == { k \in 1..Len(tok_spans) : tok_spans[k].text = t } IN
  IF Cardinality(ks) = 1 THEN tok_spans[CHOOSE k \in ks : TRUE].cat ELSE "none"

\* C4 as stated: for every line made only of characters the lexical rules
\* name, the tokens concatenated in order are the line, also when a quote
\* character is left unterminated.
C4_TokensRebuildLine ==
  (tpc = "ret" /\ IsCovered(tok_line)) => Concat(tokens) = tok_line

\* C4 amended: the tokens concatenated in order are the line when every
\* quote character of the line belongs to a literal terminated on the line;
\* when a quote is left unterminated it is dropped and the concatenation is
\* shorter than the line.
C4_TokensRebuildTerminatedLine ==
  (tpc = "ret" /\ IsCovered(tok_line)) =>
     /\ QuotesTerminated(tok_line, 1) => Concat(tokens) = tok_line
     /\ ~QuotesTerminated(tok_line, 1) => Len(Concat(tokens)) < Len(tok_line)

C4_Witness ==
  /\ tpc = "ret"
  /\ tok_line = <<"\"","d"," ","\"">>
  /\ tokens = <<tok_line>>

\* C5: a name-shaped token outside both vocabularies is a FunctionCall
\* exactly when the next token of the stream is "("; a whitespace token in
\* between defeats the rule, and the rule is applied whatever the previous
\* token is, "." "->" and "::" included.
C5_CallNeedsAdjacentParen ==
  tpc = "ret" =>
     /\ \A k \in 1..Len(tokens) :
          PlainName(k) =>
            (tok_spans[k].cat = "FunctionCall"
               <=> (k < Len(tokens) /\ tokens[k + 1] = <<"(">>))
     /\ tok_line = <<"f","o","o","(">> => CatOf(<<"f","o","o">>) = "FunctionCall"
     /\ tok_line = <<"f","o","o"," ","(">> => CatOf(<<"f","o","o">>) = "Identifier"

C5_Witness ==
  /\ tpc = "ret"
  /\ tok_line = <<"d", ".", "d", "(">>
  /\ tok_spans[3].cat = "FunctionCall"
  /\ tok_spans[3].prev = <<".">>

\* C6: prev_token is the token just before in the stream, whitespace tokens
\* included; so a name-shaped token outside both vocabularies that is not a
\* call is MemberAccess exactly when the token just before is "." or "->",
\* and NamespaceAccess exactly when it is "::".
C6_PrevTokenIsLiteralNeighbour ==
  tpc = "ret" =>
     /\ \A k \in 1..Len(tokens) :
          /\ tok_spans[k].prev = (IF k = 1 THEN None ELSE tokens[k - 1])
          /\ (PlainName(k) /\ tok_spans[k].cat # "FunctionCall") =>
               /\ tok_spans[k].cat = "MemberAccess"
                    <=> (k > 1 /\ tokens[k - 1] \in { <<".">>, <<"-",">">> })
               /\ tok_spans[k].cat = "NamespaceAccess"
                    <=> (k > 1 /\ tokens[k - 1] = <<":",":">>)
     /\ tok_line = <<"o","b","j",".","m","e","m","b","e","r">>
          => CatOf(<<"m","e","m","b","e","r">>) = "MemberAccess"
     /\ tok_line = <<"o","b","j","."," ","m","e","m","b","e","r">>
          => CatOf(<<"m","e","m","b","e","r">>) = "Identifier"

C6_Witness ==
  /\ tpc = "ret"
  /\ tok_line = <<"d", ".", " ", "d">>
  /\ tok_spans[4].cat = "Identifier"
  /\ tok_spans[4].prev = <<" ">>

\* C7: a token that is exactly "*", "&", "->" or "::" is PointerOrRef
\* whatever stands next to it, and Operator is given only to the other
\* operator tokens.
C7_PointerTokensNeverOperator ==
  tpc = "ret" =>
     /\ \A k \in 1..Len(tokens) :
          /\ tokens[k] \in { <<"*">>, <<"&">>, <<"-",">">>, <<":",":">> }
               => tok_spans[k].cat = "PointerOrRef"
          /\ tok_spans[k].cat = "Operator"
               => /\ tokens[k] \notin { <<"*">>, <<"&">>, <<"-",">">>, <<":",":">> }
                  /\ \A c \in 1..Len(tokens[k]) :
                       tokens[k][c] \in {"+", "-", "/", "%", "=", "<", ">", "!", "&",
                                         "|", "^", "~", "?"}
     /\ tok_line = <<"i","n","t"," ","*","p"," ","="," ","&","x",";">>
          => /\ CatOf(<<"*">>) = "PointerOrRef"
             /\ CatOf(<<"&">>) = "PointerOrRef"
             /\ CatOf(<<"=">>) = "Operator"

C7_Witness ==
  /\ tpc = "ret"
  /\ tok_line = <<"i","n","t"," ","*","p"," ","="," ","&","x",";">>
  /\ CatOf(<<"*">>) = "PointerOrRef"
  /\ CatOf(<<"&">>) = "PointerOrRef"

\* ------------------------------------------------------------------------
\* Properties of draw_highlighted_line (SpecLine)
\* ------------------------------------------------------------------------
\* a line has just been drawn: entry is the flag it was entered with,
\* in_comment the flag returned
Drawn == lpc = "drawn"

Has(line, a, b) == \E p \in 1..(Len(line) - 1) : line[p] = a /\ line[p + 1] = b

\* the first character of the line that is not whitespace is "#"
StartsWithHash(line) ==
  \E p \in 1..Len(line) :
     /\ line[p] = "#"
     /\ \A q \in 1..(p - 1) : line[q] \in Whitespace

\* position of the first "//" of a line that has one
FirstSlashes(line) ==
  CHOOSE p \in 1..(Len(line) - 1) :
     /\ line[p] = "/" /\ line[p + 1] = "/"
     /\ \A q \in 1..(p - 1) : ~(line[q] = "/" /\ line[q + 1] = "/")

UrlLine ==
  <<"s","t","d",":",":","s","t","r","i","n","g"," ","s"," ","="," ",
    "\"","h","t","t","p",":","/","/","x",".","c","o","m","\"",";">>

\* C2: a line entered inside a block comment that holds no "*/" is drawn as
\* one BlockComment span holding the whole line, and the flag returned is
\* true, so the next line is entered inside the comment as well.
C2_CommentContinues ==
  (Drawn /\ entry /\ ~Has(cur_line, "*", "/")) =>
     /\ cur_spans = <<[text |-> cur_line, cat |-> "BlockComment", x |-> 0]>>
     /\ in_comment

C2_Witness ==
  /\ Drawn
  /\ entry
  /\ cur_line = <<"#", "/", "/", "d">>
  /\ in_comment

\* C8: a line entered outside a comment that holds no "/*" and whose first
\* non-whitespace character is "#" is drawn as one Preprocessor span holding
\* the whole line, whatever else it holds, and the flag returned is false; a
\* line that holds "/*" is never drawn as a Preprocessor span.
C8_PreprocessorLine ==
  Drawn =>
     /\ (~entry /\ ~Has(cur_line, "/", "*") /\ StartsWithHash(cur_line)) =>
          /\ cur_spans = <<[text |-> cur_line, cat |-> "Preprocessor", x |-> 0]>>
          /\ ~in_comment
     /\ Has(cur_line, "/", "*") =>
          /\ cur_spans # <<[text |-> cur_line, cat |-> "Preprocessor", x |-> 0]>>
          /\ ~entry => \A k \in 1..Len(cur_spans) : cur_spans[k].cat # "Preprocessor"

C8_Witness ==
  /\ Drawn
  /\ ~entry
  /\ cur_line = <<" ", "#", "/", "/">>
  /\ cur_spans = <<[text |-> cur_line, cat |-> "Preprocessor", x |-> 0]>>

\* C9: on a line entered outside a comment that holds no "/*", does not
\* start with "#" and holds "//", the last span is a LineComment from the
\* first "//" to the end of the line, the spans before it are the tokens of
\* the text before the "//", and the flag returned is false; quotes are not
\* looked at, so in UrlLine the comment starts inside the string.
C9_LineCommentFromFirstSlashes ==
  (Drawn /\ ~entry /\ ~Has(cur_line, "/", "*") /\ ~StartsWithHash(cur_line)
     /\ Has(cur_line, "/", "/")) =>
     LET p == FirstSlashes(cur_line)
         n == Len(cur_spans)
         before == SubSeq(cur_line, 1, p - 1)
     IN  /\ n >= 1
         /\ cur_spans[n].cat = "LineComment"
         /\ cur_spans[n].text = SubSeq(cur_line, p, Len(cur_line))
         /\ SubSeq(cur_spans, 1, n - 1) = draw_code_tokens(before, 0).spans
         /\ \A k \in 1..(n - 1) : cur_spans[k].cat # "LineComment"
         /\ ~in_comment
         /\ cur_line = UrlLine =>
              /\ cur_spans[n].text = <<"/","/","x",".","c","o","m","\"",";">>
              /\ \A k \in 1..n : cur_spans[k].cat # "String"

C9_Witness ==
  /\ Drawn
  /\ ~entry
  /\ cur_line = UrlLine
  /\ cur_spans[Len(cur_spans)].text = <<"/","/","x",".","c","o","m","\"",";">>

\* ------------------------------------------------------------------------
\* Properties of create_pdf (Spec)
\* ------------------------------------------------------------------------
IsFileHeader(e) == e.kind = "Paragraph" /\ e.style = "FileHeader"

IsCode(e) == e.kind = "Code"

\* position in elements of the header of file k, 0 when it has none
HeaderPos(k) ==
  LET ps == { p \in 1..Len(elements) : IsFileHeader(elements[p]) /\ elements[p].arg = k }
  IN  IF ps = {} THEN 0 ELSE CHOOSE p \in ps : TRUE

\* position of the first file header after position p, Len(elements) + 1
\* when there is none
BlockEnd(p) ==
  LET ps == { q \in (p + 1)..Len(elements) : IsFileHeader(elements[q]) } IN
  IF ps = {} THEN Len(elements) + 1 ELSE CHOOSE q \in ps : \A r \in ps : q <= r

\* the code flowables between the header of file k and the next header
CodesOf(k) ==
  IF HeaderPos(k) = 0 THEN << >>
  ELSE SelectSeq(SubSeq(elements, HeaderPos(k) + 1, BlockEnd(HeaderPos(k)) - 1), IsCode)

\* the lines of the flowables cs, in order
LinesOf(cs) == Concat([c \in 1..Len(cs) |-> cs[c].lines])

\* the files the loop has handled and could read
Handled == { k \in 1..i : files_to_include[k].readable }

FileLines(k) == split(files_to_include[k].code_content)

\* the flag after draw_highlighted_line has run over lines[1..n] from False
ExactState(lines, n) == DrawLoop(lines, 1, n, 1, FALSE).in_comment

\* C1 as stated: the in_block_comment each chunk is created with is the
\* flag draw_highlighted_line returns after running, from False, over all
\* the lines of the file before the chunk.
C1_ChunkEntryIsExactState ==
  \A k \in Handled :
     \A c \in 1..Len(CodesOf(k)) :
        CodesOf(k)[c].in_block_comment
          = ExactState(FileLines(k), CodesOf(k)[c].start_line - 1)

\* smallest m with m * d >= n
Ceil(n, d) == CHOOSE m \in 0..n : m * d >= n /\ (m = 0 \/ (m - 1) * d < n)

\* cs are the chunks of lines for chunk size K
ChunksPartition(lines, cs, K) ==
  LET n == Len(lines)
      N == IF n > K THEN Ceil(n, K) ELSE 1
  IN  /\ Len(cs) = N
      /\ \A c \in 1..N :
           /\ cs[c].start_line = (c - 1) * K + 1
           /\ cs[c].lines = SubSeq(lines, (c - 1) * K + 1, Min(c * K, n))
           /\ cs[c].is_first_chunk = (c = 1)
           /\ cs[c].is_last_chunk = (c = N)
      /\ LinesOf(cs) = lines
      /\ n = 110 =>
           /\ [c \in 1..Len(cs) |-> cs[c].start_line] = <<1, 56>>
           /\ [c \in 1..Len(cs) |-> cs[c].is_first_chunk] = <<TRUE, FALSE>>
           /\ [c \in 1..Len(cs) |-> cs[c].is_last_chunk] = <<FALSE, TRUE>>

\* C3: a file of n lines gives ceil(n/55) chunks when n > 55 and one chunk
\* otherwise; chunk c (from 1) holds lines (c-1)*55+1 .. min(c*55, n), starts
\* at line (c-1)*55+1, is first only when c = 1 and last only when it is
\* the final chunk, so the chunks in order are the lines of the file.
C3_ChunksPartitionFile ==
  \A k \in Handled : ChunksPartition(FileLines(k), CodesOf(k), 55)

C3_Witness ==
  /\ pc = "build"
  /\ Len(files_to_include) = 1
  /\ Len(FileLines(1)) = 110
  /\ Len(CodesOf(1)) = 2
  /\ CodesOf(1)[2].start_line = 56
  /\ CodesOf(1)[2].is_last_chunk

\* the indices 1..n that satisfy Test, in order
Indices(n, Test(_)) == SelectSeq([k \in 1..n |-> k], Test)

\* C10: every file that cannot be read is reported and adds neither a
\* header nor a code block; every file that can be read adds, in file
\* order, its header followed by the chunks that hold all its lines; the
\* file loop goes on to the end of the list and then doc.build is entered.
C10_UnreadableFilesAreSkipped ==
  LET readable(k) == files_to_include[k].readable
      unreadable(k) == ~files_to_include[k].readable
      headers == SelectSeq(elements, IsFileHeader)
  IN  /\ warnings = Indices(i, unreadable)
      /\ [h \in 1..Len(headers) |-> headers[h].arg] = Indices(i, readable)
      /\ \A k \in Handled :
           LET p == HeaderPos(k)
               n == Len(CodesOf(k))
           IN  /\ n >= 1
               /\ elements[p + 1].kind = "Spacer"
               /\ \A q \in (p + 2)..(p + 1 + n) : IsCode(elements[q])
               /\ LinesOf(CodesOf(k)) = FileLines(k)
      /\ \A q \in 1..Len(elements) :
           IsCode(elements[q]) => \E k \in Handled : HeaderPos(k) < q /\ q < BlockEnd(HeaderPos(k))
      /\ pc = "files" => (i < Len(files_to_include) /\ result = "none")
      /\ pc \in {"build", "done"} => i = Len(files_to_include)

C10_Witness ==
  /\ pc = "done"
  /\ result = TRUE
  /\ Len(files_to_include) = 3
  /\ ~files_to_include[1].readable
  /\ files_to_include[2].readable
  /\ ~files_to_include[3].readable
  /\ warnings = <<1, 3>>
  /\ Len(CodesOf(2)) = 2
  /\ Len(drawn) = 2

\* ------------------------------------------------------------------------
\* Properties of the text after a comment (SpecLine)
\* ------------------------------------------------------------------------
\* the positions from p on where the two characters a b stand
Marks(line, a, b, p) == { q \in p..(Len(line) - 1) : line[q] = a /\ line[q + 1] = b }

Least(S) == CHOOSE q \in S : \A r \in S : q <= r

\* the line holds "/*" and a "*/" that closes the first of them
ClosedHead(line) ==
  /\ Marks(line, "/", "*", 1) # {}
  /\ Marks(line, "*", "/", Least(Marks(line, "/", "*", 1)) + 2) # {}

\* position of the "*/" that closes the first "/*" of the line
HeadClose(line) == Least(Marks(line, "*", "/", Least(Marks(line, "/", "*", 1)) + 2))

\* the first comment region of the line, from "/*" through "*/"
HeadRegion(line) == SubSeq(line, Least(Marks(line, "/", "*", 1)), HeadClose(line) + 1)

\* the text after the first comment region
AfterHead(line) == SubSeq(line, HeadClose(line) + 2, Len(line))

\* C13 as stated: on a line entered outside a comment that holds a closed
\* comment followed by more text, that text goes through the line rules
\* again: a second closed comment in it is drawn as a BlockComment span, a
\* "/*" left open in it makes the returned flag true, and a "//" in it
\* starts a LineComment span.
C13_TailIsReprocessed ==
  (Drawn /\ ~entry /\ ClosedHead(cur_line) /\ AfterHead(cur_line) # << >>) =>
     LET after == AfterHead(cur_line) IN
     /\ ClosedHead(after) =>
          \E k \in 2..Len(cur_spans) :
             cur_spans[k].cat = "BlockComment" /\ cur_spans[k].text = HeadRegion(after)
     /\ (Has(after, "/", "*") /\ ~Has(after, "*", "/")) => in_comment
     /\ (Has(after, "/", "/") /\ ~Has(after, "/", "*") /\ ~StartsWithHash(after)) =>
          \E k \in 2..Len(cur_spans) :
             /\ cur_spans[k].cat = "LineComment"
             /\ cur_spans[k].text = SubSeq(after, FirstSlashes(after), Len(after))

\* the last span drawn for the line is a comment left open: a BlockComment
\* span with no "*/" that ends it.  The only span of a line entered inside a
\* comment continues that comment and any "*/" in it ends it; every other
\* BlockComment span starts with the "/*" that opens it and is ended by a
\* "*/" after those two characters.
LastSpanOpen ==
  /\ cur_spans # << >>
  /\ LET last == cur_spans[Len(cur_spans)] IN
       /\ last.cat = "BlockComment"
       /\ IF entry /\ Len(cur_spans) = 1
          THEN Marks(last.text, "*", "/", 1) = {}
          ELSE Marks(last.text, "*", "/", 3) = {}

\* C14 as stated: after any sequence of lines from Normal, the running flag
\* is true exactly when the last span drawn for the latest line is a
\* comment left open, also when a line entered inside a comment closes it
\* and the text after the "*/" opens a comment again.
C14_FlagIsOpenComment ==
  Drawn => (in_comment <=> LastSpanOpen)

\* ------------------------------------------------------------------------
\* Properties of the fallback branch (SpecTok)
\* ------------------------------------------------------------------------
\* the single-character operators the token pattern names
OperatorCharTokens ==
  { <<c>> : c \in {"+", "-", "*", "/", "%", "=", "<", ">", "!", "&", "|", "^", "~", "?", ":"} }

\* the multi-character operators the token pattern names
OperatorListTokens ==
  { <<":",":">>, <<"-",">">>, <<"+","+">>, <<"-","-">>, <<"<","<">>, <<">",">">>,
    <<"<","=">>, <<">","=">>, <<"=","=">>, <<"!","=">>, <<"&","&">>, <<"|","|">> }

\* the brackets and separators the token pattern names
SeparatorTokens ==
  { <<c>> : c \in {"(", ")", "[", "]", "{", "}", ";", ",", ".", "#"} }

\* C15 as stated: every operator token is painted as Operator or
\* PointerOrRef, every bracket or separator token as Punctuation, and the
\* Identifier fallback is taken only by tokens shaped like a name.
C15_FallbackOnlyForNames ==
  tpc = "ret" =>
     \A k \in 1..Len(tok_spans) :
        LET t == tok_spans[k] IN
        /\ t.text \in OperatorCharTokens \cup OperatorListTokens
             => t.cat \in {"Operator", "PointerOrRef"}
        /\ t.text \in SeparatorTokens => t.cat = "Punctuation"
        /\ t.cat = "Identifier" => IsIdent(t.text)

\* ------------------------------------------------------------------------
\* Properties of the scan between chunks (Spec)
\* ------------------------------------------------------------------------
\* no line holds both "/*" and "*/"
Unmixed(lines) ==
  \A n \in 1..Len(lines) : ~(Has(lines[n], "/", "*") /\ Has(lines[n], "*", "/"))

\* the lines that hold neither "/*" nor "*/"
Unmarked(lines) ==
  { lines[n] : n \in { m \in 1..Len(lines) :
                         ~Has(lines[m], "/", "*") /\ ~Has(lines[m], "*", "/") } }

\* C16: in a file no line of which holds both "/*" and "*/", every chunk is
\* created with the flag draw_highlighted_line returns after running, from
\* False, over all the lines before the chunk; and a line that holds neither
\* marker leaves the flag as it was, in the scan and in draw_highlighted_line.
C16_ScanExactOnUnmixedFiles ==
  \A k \in Handled :
     Unmixed(FileLines(k)) =>
        /\ \A c \in 1..Len(CodesOf(k)) :
              CodesOf(k)[c].in_block_comment
                = ExactState(FileLines(k), CodesOf(k)[c].start_line - 1)
        /\ \A line \in Unmarked(FileLines(k)) :
              \A flag \in BOOLEAN :
                 /\ ScanLine(line, flag) = flag
                 /\ draw_highlighted_line(line, 0, flag).ret = flag

\* a file of three chunks: the second and the third are entered inside a
\* comment that a line with code before the "/*" opened, and were drawn
C16_Witness ==
  /\ pc = "done"
  /\ Len(files_to_include) = 1
  /\ Unmixed(FileLines(1))
  /\ Len(CodesOf(1)) = 3
  /\ FileLines(1)[56] = <<"*","/">>
  /\ FileLines(1)[110] = <<"#","d"," ","/","*">>
  /\ [c \in 1..3 |-> CodesOf(1)[c].in_block_comment] = <<FALSE, TRUE, TRUE>>
  /\ Len(drawn) = 3
  /\ drawn[3][1].spans = <<[text |-> <<"d",";">>, cat |-> "BlockComment", x |-> 0]>>

\* ------------------------------------------------------------------------
\* Properties of the flowables as objects (SpecDraw)
\* ------------------------------------------------------------------------
\* the flowables create_pdf makes from the text the chunks hold
Fresh == CodeFlowables(join(LinesOf(chunks)))

\* C12: draw writes no attribute of the flowable, so whatever was drawn
\* before, and however often, every draw of a chunk gives the spans a first
\* draw of the newly made chunk gives, and the chunks stay as they were made.
C12_DrawLeavesChunksAlone ==
  /\ chunks = Fresh
  /\ \A k \in 1..Len(renders) :
       \A j \in 1..Len(renders[k]) : renders[k][j] = draw(Fresh[k])

\* the first chunk ends inside a comment; it was drawn twice, after the second
C12_Witness ==
  /\ Len(chunks) = 2
  /\ ~chunks[1].in_block_comment
  /\ chunks[2].in_block_comment
  /\ Len(renders[2]) = 1
  /\ Len(renders[1]) = 2
  /\ renders[1][1] = renders[1][2]
  /\ renders[1][1][1].spans = <<[text |-> <<"/","*">>, cat |-> "BlockComment", x |-> 0]>>

\* ------------------------------------------------------------------------
\* Properties of the palettes (SpecGui)
\* ------------------------------------------------------------------------
\* the keys the drawing code and create_pdf look up
ThemeKeyNames ==
  { "bg", "bg_page", "border", "linenr", "text", "text_dim", "comment", "keyword",
    "function", "string", "number", "preproc", "type", "variable", "property",
    "operator", "punctuation" }

\* the keys a span of any category is painted with
CategoryKeys ==
  { ThemeKey(cat) :
      cat \in { "String", "Keyword", "Type", "FunctionCall", "MemberAccess",
                "NamespaceAccess", "PointerOrRef", "Operator", "Number", "Punctuation",
                "Identifier", "BlockComment", "LineComment", "Preprocessor" } }

\* C11: the five palettes have the same seventeen keys, every key that
\* create_pdf, draw, draw_highlighted_line and draw_code_tokens look up is
\* one of them, SELECTED_THEME always names a palette, and no lookup made by
\* a run raises KeyError, whichever palette is selected.
C11_PalettesShareKeys ==
  /\ Cardinality(DOMAIN THEMES) = 5
  /\ \A t \in DOMAIN THEMES : DOMAIN THEMES[t] = ThemeKeyNames
  /\ StyleKeys \cup PageKeys \cup BoxKeys \cup {"linenr"} \cup CategoryKeys = ThemeKeyNames
  /\ SELECTED_THEME \in DOMAIN THEMES
  /\ \A w \in 1..Len(workers) : ~workers[w].raised

\* a run under kanagawa-lotus has painted punctuation, and every other
\* category of b.h, without an error
C11_Witness ==
  /\ Len(workers) = 1
  /\ workers[1].pc = "return"
  /\ workers[1].args = [code_file |-> "b.h", include_project |-> FALSE]
  /\ workers[1].theme = "kanagawa-lotus"
  /\ workers[1].palettes = {"kanagawa-lotus"}
  /\ ~workers[1].raised
  /\ Lookup("kanagawa-lotus", "punctuation") = "#625e5a"

\* C17 as stated: in every run, the palette create_pdf binds at its start is
\* the palette every later read of SELECTED_THEME by draw,
\* draw_highlighted_line and draw_code_tokens gives, also when the button is
\* pressed again with another palette while the worker is running.
C17_OnePalettePerRun ==
  \A w \in 1..Len(workers) :
     workers[w].theme # "" => workers[w].palettes \subseteq {workers[w].theme}
====
